---- MODULE Spec2Model ----
(***************************************************************************)
(* Test-matrix parameterization of qai_hub_models:                         *)
(*   qai_hub_models/models/common.py                                       *)
(*        QAIRTVersion, Precision, TargetRuntime                           *)
(*   qai_hub_models/scorecard/execution_helpers.py                         *)
(*        get_enabled_test_precisions, get_model_test_precisions,          *)
(*        get_model_test_parameterizations,                                *)
(*        get_quantize_parameterized_pytest_config,                        *)
(*        get_evaluation_parameterized_pytest_config,                      *)
(*        ClientStateSingleton                                             *)
(* Strings are modelled as tuples of one-character strings, so that        *)
(* Precision.parse is computed on the characters, as the regular           *)
(* expressions of the source do.                                           *)
(***************************************************************************)
EXTENDS Integers, Sequences, FiniteSets, TLC

VARIABLES
    env,              \* the environment: env variables and allow-lists; for
                      \* QAIRTVersion the hub client configuration and network
    args,             \* the arguments (and reassigned parameters) of the call
    outcome,          \* "pending" | "returned" | "ValueError"
    test_precisions,  \* list returned by get_model_test_precisions
    ret,              \* list returned by get_model_test_parameterizations; the
                      \* value returned by version_eq or Precision.parse
    FRAMEWORKS,             \* QAIRTVersion._FRAMEWORKS: URL -> frameworks
    HUB_DEFAULT_FRAMEWORK,  \* QAIRTVersion._HUB_DEFAULT_FRAMEWORK: URL -> framework
    self,             \* the QAIRTVersion under construction: _api_url, framework
    message,          \* the versions listed by the ValueError of QAIRTVersion
    fetches,          \* URL -> framework lists that get_framework_list returned
    threads,          \* thread -> its position in QAIRTVersion() and its locals
    ClientStateSingleton_instance,  \* the class attribute ClientStateSingleton._instance
    instances,        \* the ClientStateSingleton objects constructed: their attributes
    on_staging_calls  \* evaluations of _on_staging() that returned a value

client_vars == <<ClientStateSingleton_instance, instances, on_staging_calls>>

qairt_vars == <<FRAMEWORKS, HUB_DEFAULT_FRAMEWORK, self, message, fetches, threads>>

vars == <<env, args, outcome, test_precisions, ret, qairt_vars, client_vars>>

None == "None"

\* An Optional value: Nothing for None, Some(x) for a value x.
Nothing == <<>>
Some(x) == <<x>>

Range(s) == {s[i] : i \in 1..Len(s)}

\* All orderings of a finite set, as sequences without repetition.
RECURSIVE Orderings(_)
Orderings(S) ==
    IF S = {} THEN {<<>>}
    ELSE UNION {{<<x>> \o s : s \in Orderings(S \ {x})} : x \in S}

\* All sequences over S of length at most n.
RECURSIVE SeqsUpTo(_, _)
SeqsUpTo(S, n) ==
    IF n = 0 THEN {<<>>}
    ELSE SeqsUpTo(S, n - 1)
         \cup {Append(s, x) : s \in {t \in SeqsUpTo(S, n - 1) : Len(t) = n - 1}, x \in S}

RECURSIVE Flatten(_)
Flatten(ss) == IF ss = <<>> THEN <<>> ELSE Head(ss) \o Flatten(Tail(ss))

(***************************************************************************)
(* Precision (models/common.py)                                            *)
(***************************************************************************)
\* Member names of qai_hub.client.QuantizeDtype and of _FloatDtype.
QuantizeDtype == {"INT4", "INT8", "INT16"}
FloatDtype == {"FP16"}
allowed_override_dtypes == {"INT16", "FP16"}

Precision(weights_type, activations_type, override_type) ==
    [weights_type |-> weights_type,
     activations_type |-> activations_type,
     override_type |-> override_type]

float == Precision(None, None, None)
w8a8 == Precision("INT8", "INT8", None)
w8a16 == Precision("INT8", "INT16", None)
w16a16 == Precision("INT16", "INT16", None)
w4a16 == Precision("INT4", "INT16", None)
w4 == Precision("INT4", None, None)
w8a8_mixed_int16 == Precision("INT8", "INT8", "INT16")
w8a16_mixed_int16 == Precision("INT8", "INT16", "INT16")
w8a8_mixed_fp16 == Precision("INT8", "INT8", "FP16")
w8a16_mixed_fp16 == Precision("INT8", "INT16", "FP16")

\* The ValueError raised by Precision.parse, as a value no Precision equals.
ParseError == [error |-> "ValueError"]

Digits == {"0", "1", "2", "3", "4", "5", "6", "7", "8", "9"}

\* A regex group that took no part in the match (None, falsy like "").
NoToken == <<>>

\* First position at or after i that holds no digit (the end of a \d+ run).
RECURSIVE DigitsEnd(_, _)
DigitsEnd(s, i) ==
    IF i <= Len(s) /\ s[i] \in Digits THEN DigitsEnd(s, i + 1) ELSE i

\* The optional group (<letter>\d+)? tried at position i: the token it
\* captures (NoToken when the group does not take part) and where it ends.
OptToken(s, i, letter) ==
    IF i + 1 <= Len(s) /\ s[i] = letter /\ s[i + 1] \in Digits
    THEN [tok |-> SubSeq(s, i, DigitsEnd(s, i + 1) - 1), next |-> DigitsEnd(s, i + 1)]
    ELSE [tok |-> NoToken, next |-> i]

\* re.match(r"(<first>\d+)?(<second>\d+)?", string): the two groups.
TwoTokens(s, first, second) ==
    LET g1 == OptToken(s, 1, first)
        g2 == OptToken(s, g1.next, second)
    IN  <<g1.tok, g2.tok>>

MixedMarker == <<"_", "m", "i", "x", "e", "d", "_">>

\* re.match(r"(.*)_mixed_(.*)", string): <<group(2)>>, the text after the last
\* "_mixed_" (the first group is greedy), or <<>> when there is no match.
MixedSuffix(s) ==
    LET starts == {k \in 1..Len(s) :
                     k + 6 <= Len(s) /\ SubSeq(s, k, k + 6) = MixedMarker}
    IN  IF starts = {} THEN <<>>
        ELSE LET k == CHOOSE m \in starts : \A n \in starts : n <= m
             IN  <<SubSeq(s, k + 7, Len(s))>>

UpperChar(c) ==
    CASE c = "i" -> "I" [] c = "n" -> "N" [] c = "t" -> "T"
      [] c = "f" -> "F" [] c = "p" -> "P" [] c = "w" -> "W"
      [] c = "a" -> "A" [] c = "x" -> "X" [] OTHER -> c

Upper(s) == [i \in 1..Len(s) |-> UpperChar(s[i])]

\* f"INT{tok[1:]}" looked up in QuantizeDtype._member_names_.
EnumNameOf(tok) ==
    LET width == SubSeq(tok, 2, Len(tok))
    IN  CASE width = <<"4">> -> "INT4"
          [] width = <<"8">> -> "INT8"
          [] width = <<"1", "6">> -> "INT16"
          [] OTHER -> "unsupported"

\* otype_enum_name resolved against Precision._allowed_override_dtypes.
OverrideNameOf(suffix) ==
    CASE Upper(suffix) = <<"I", "N", "T", "1", "6">> -> "INT16"
      [] Upper(suffix) = <<"F", "P", "1", "6">> -> "FP16"
      [] OTHER -> "unsupported"

\* A faulty variant of parse: only the weights-first pattern is tried.
parse_weights_first(string) ==
    IF string = <<"f", "l", "o", "a", "t">> THEN float
    ELSE
      LET otype_enum_name == IF MixedSuffix(string) = <<>> THEN None
                             ELSE OverrideNameOf(MixedSuffix(string)[1])
          wa == TwoTokens(string, "w", "a")
          wtype == wa[1]
          atype == wa[2]
          atype_enum_name == IF atype # NoToken THEN EnumNameOf(atype) ELSE None
          wtype_enum_name == IF wtype # NoToken THEN EnumNameOf(wtype) ELSE None
      IN  IF atype = NoToken /\ wtype = NoToken THEN ParseError
          ELSE IF atype_enum_name = "unsupported" \/ wtype_enum_name = "unsupported"
          THEN ParseError
          ELSE IF otype_enum_name = "unsupported" THEN ParseError
          ELSE Precision(wtype_enum_name, atype_enum_name, otype_enum_name)

\* A faulty variant of parse: an override marker that is not allowed is
\* dropped instead of raising.
parse_dropping_override(string) ==
    IF string = <<"f", "l", "o", "a", "t">> THEN float
    ELSE
      LET otype_enum_name == IF MixedSuffix(string) = <<>> THEN None
                             ELSE OverrideNameOf(MixedSuffix(string)[1])
          wa == TwoTokens(string, "w", "a")
          aw == TwoTokens(string, "a", "w")
          wtype == IF wa[1] # NoToken THEN wa[1] ELSE aw[2]
          atype == IF wa[2] # NoToken THEN wa[2] ELSE aw[1]
          atype_enum_name == IF atype # NoToken THEN EnumNameOf(atype) ELSE None
          wtype_enum_name == IF wtype # NoToken THEN EnumNameOf(wtype) ELSE None
      IN  IF atype = NoToken /\ wtype = NoToken THEN ParseError
          ELSE IF atype_enum_name = "unsupported" \/ wtype_enum_name = "unsupported"
          THEN ParseError
          ELSE IF otype_enum_name = "unsupported"
          THEN Precision(wtype_enum_name, atype_enum_name, None)
          ELSE Precision(wtype_enum_name, atype_enum_name, otype_enum_name)

\* Precision.parse(obj) for a string obj; ParseError stands for the raise.
parse(string) ==
    IF string = <<"f", "l", "o", "a", "t">> THEN float
    ELSE
      LET otype_enum_name == IF MixedSuffix(string) = <<>> THEN None
                             ELSE OverrideNameOf(MixedSuffix(string)[1])
          wa == TwoTokens(string, "w", "a")
          aw == TwoTokens(string, "a", "w")
          wtype == IF wa[1] # NoToken THEN wa[1] ELSE aw[2]
          atype == IF wa[2] # NoToken THEN wa[2] ELSE aw[1]
          atype_enum_name == IF atype # NoToken THEN EnumNameOf(atype) ELSE None
          wtype_enum_name == IF wtype # NoToken THEN EnumNameOf(wtype) ELSE None
      IN  IF atype = NoToken /\ wtype = NoToken THEN ParseError
          ELSE IF atype_enum_name = "unsupported" \/ wtype_enum_name = "unsupported"
          THEN ParseError
          ELSE IF otype_enum_name = "unsupported" THEN ParseError
          ELSE Precision(wtype_enum_name, atype_enum_name, otype_enum_name)

Whitespace == {" "}

\* str.strip(): leading and trailing whitespace removed.
RECURSIVE strip(_)
strip(s) ==
    IF s = <<>> THEN s
    ELSE IF Head(s) \in Whitespace THEN strip(Tail(s))
    ELSE IF s[Len(s)] \in Whitespace THEN strip(SubSeq(s, 1, Len(s) - 1))
    ELSE s

(***************************************************************************)
(* TargetRuntime (models/common.py)                                        *)
(***************************************************************************)
\* The members of the enum, in declaration order.
TargetRuntime ==
    <<"TFLITE", "QNN_DLC", "QNN_CONTEXT_BINARY", "ONNX",
      "PRECOMPILED_QNN_ONNX", "GENIE", "ONNXRUNTIME_GENAI">>

inference_engine(runtime) ==
    IF runtime = "TFLITE" THEN "TFLITE"
    ELSE IF runtime \in {"QNN_CONTEXT_BINARY", "QNN_DLC", "GENIE"} THEN "QNN"
    ELSE IF runtime \in {"ONNX", "PRECOMPILED_QNN_ONNX", "ONNXRUNTIME_GENAI"} THEN "ONNX"
    ELSE "assert_never"

\* A faulty variant of supports_precision: the runtimes that embed a context
\* binary are not handled, so the call falls through to assert_never.
supports_precision_without_embedded(runtime, precision) ==
    IF precision = float THEN Some(TRUE)
    ELSE IF runtime = "TFLITE" THEN Some(precision = w8a8)
    ELSE IF runtime = "ONNX"
    THEN Some(precision \in {w8a8, w8a16, w16a16, w4a16, w4,
                             w8a8_mixed_int16, w8a16_mixed_int16,
                             w8a8_mixed_fp16, w8a16_mixed_fp16})
    ELSE IF runtime \in {"QNN_DLC", "QNN_CONTEXT_BINARY"}
    THEN Some(precision \in {w8a8, w8a16, w4a16, w4, w16a16,
                             w8a8_mixed_int16, w8a16_mixed_int16,
                             w8a8_mixed_fp16, w8a16_mixed_fp16})
    ELSE Nothing

\* A faulty variant of supports_precision: ONNX Runtime has no mixed-precision
\* profile.
supports_precision_onnx_without_mixed(runtime, precision) ==
    IF precision = float THEN Some(TRUE)
    ELSE IF runtime = "TFLITE" THEN Some(precision = w8a8)
    ELSE IF runtime = "ONNX"
    THEN Some(precision \in {w8a8, w8a16, w16a16, w4a16, w4})
    ELSE IF runtime \in {"QNN_DLC", "QNN_CONTEXT_BINARY", "PRECOMPILED_QNN_ONNX",
                         "GENIE", "ONNXRUNTIME_GENAI"}
    THEN Some(precision \in {w8a8, w8a16, w4a16, w4, w16a16,
                             w8a8_mixed_int16, w8a16_mixed_int16,
                             w8a8_mixed_fp16, w8a16_mixed_fp16})
    ELSE Nothing

\* TargetRuntime.supports_precision: Some(the bool returned), or Nothing when
\* no branch handles the runtime and assert_never is reached.
supports_precision(runtime, precision) ==
    IF precision = float THEN Some(TRUE)
    ELSE IF runtime = "TFLITE" THEN Some(precision = w8a8)
    ELSE IF runtime = "ONNX"
    THEN Some(precision \in {w8a8, w8a16, w16a16, w4a16, w4,
                             w8a8_mixed_int16, w8a16_mixed_int16,
                             w8a8_mixed_fp16, w8a16_mixed_fp16})
    ELSE IF runtime \in {"QNN_DLC", "QNN_CONTEXT_BINARY", "PRECOMPILED_QNN_ONNX",
                         "GENIE", "ONNXRUNTIME_GENAI"}
    THEN Some(precision \in {w8a8, w8a16, w4a16, w4, w16a16,
                             w8a8_mixed_int16, w8a16_mixed_int16,
                             w8a8_mixed_fp16, w8a16_mixed_fp16})
    ELSE Nothing

is_aot_compiled(runtime) ==
    runtime \in {"QNN_CONTEXT_BINARY", "PRECOMPILED_QNN_ONNX", "GENIE", "ONNXRUNTIME_GENAI"}

is_exclusively_for_genai(runtime) ==
    runtime \in {"GENIE", "ONNXRUNTIME_GENAI"}

(***************************************************************************)
(* Environment overrides: QAIHM_TEST_PRECISIONS holds special settings and *)
(* literal precision strings.                                              *)
(***************************************************************************)
SpecialPrecisionSetting == {"DEFAULT", "DEFAULT_MINUS_FLOAT", "DEFAULT_QUANTIZED", "BENCH"}

Special(name) == [special |-> name]
Str(string) == [str |-> string]
IsSpecial(p) == DOMAIN p = {"special"}
IsStr(p) == DOMAIN p = {"str"}

\* An argument of Precision.parse that is a Precision, or neither a string
\* nor a Precision (strings are Str(...)).
PrecisionObj(p) == [precision |-> p]
OtherObj(x) == [other |-> x]
IsPrecisionObj(obj) == DOMAIN obj = {"precision"}

\* Precision.parse(obj), lines 690-694 before the string is looked at.
parse_obj(obj) ==
    IF IsPrecisionObj(obj) THEN obj.precision
    ELSE IF ~IsStr(obj) THEN ParseError
    ELSE parse(obj.str)

\* <dtype>.name[3:] of a QuantizeDtype member.
NameTail(name) ==
    CASE name = "INT4" -> <<"4">> [] name = "INT8" -> <<"8">> [] name = "INT16" -> <<"1", "6">>

\* <dtype>.name.lower() of an allowed override dtype.
NameLower(name) ==
    CASE name = "INT16" -> <<"i", "n", "t", "1", "6">> [] name = "FP16" -> <<"f", "p", "1", "6">>

\* A faulty variant of Precision_str: the override type is left out.
Precision_str_without_override(p) ==
    IF p = float THEN <<"f", "l", "o", "a", "t">>
    ELSE (IF p.weights_type # None THEN <<"w">> \o NameTail(p.weights_type) ELSE <<>>)
            \o (IF p.activations_type # None
                THEN <<"a">> \o NameTail(p.activations_type) ELSE <<>>)

\* Precision.__str__
Precision_str(p) ==
    IF p = float THEN <<"f", "l", "o", "a", "t">>
    ELSE LET precision_name ==
                (IF p.weights_type # None THEN <<"w">> \o NameTail(p.weights_type) ELSE <<>>)
                   \o (IF p.activations_type # None
                       THEN <<"a">> \o NameTail(p.activations_type) ELSE <<>>)
         IN  IF p.override_type # None
             THEN precision_name \o MixedMarker \o NameLower(p.override_type)
             ELSE precision_name

\* Precision.__init__: an override type outside the allowed ones raises
\* ValueError; the three attributes are stored as given.
Precision_init(weights_type, activations_type, override_type) ==
    IF override_type # None /\ override_type \notin allowed_override_dtypes
    THEN ParseError
    ELSE Precision(weights_type, activations_type, override_type)

\* A faulty variant of Precision_eq: the override type is not compared.
Precision_eq_ignoring_override(self_, value) ==
    IF ~IsPrecisionObj(value) THEN FALSE
    ELSE /\ value.precision.activations_type = self_.activations_type
         /\ value.precision.weights_type = self_.weights_type

\* Precision.__eq__(self, value)
Precision_eq(self_, value) ==
    IF ~IsPrecisionObj(value) THEN FALSE
    ELSE /\ value.precision.activations_type = self_.activations_type
         /\ value.precision.weights_type = self_.weights_type
         /\ value.precision.override_type = self_.override_type

\* ord(c) of the characters a precision's string form is written with.
Ord(c) ==
    CASE c = "1" -> 49 [] c = "4" -> 52 [] c = "6" -> 54 [] c = "8" -> 56
      [] c = "_" -> 95 [] c = "a" -> 97 [] c = "d" -> 100 [] c = "e" -> 101
      [] c = "f" -> 102 [] c = "i" -> 105 [] c = "l" -> 108 [] c = "m" -> 109
      [] c = "n" -> 110 [] c = "o" -> 111 [] c = "p" -> 112 [] c = "t" -> 116
      [] c = "w" -> 119 [] c = "x" -> 120

\* hash(str): a function of the characters and of the seed the process drew
\* at start, into a bounded range, so that unequal strings may collide.
HashRange == 64

RECURSIVE str_hash(_, _)
str_hash(s, seed) ==
    IF s = <<>> THEN seed % HashRange
    ELSE (str_hash(SubSeq(s, 1, Len(s) - 1), seed) * 31 + Ord(s[Len(s)])) % HashRange

\* Precision.__hash__
Precision_hash(p, seed) == str_hash(Precision_str(p), seed)

\* A faulty variant of has_quantized_activations: a floating-point override
\* makes the activations count as not quantized.
has_quantized_activations_unless_float_override(p) ==
    IF p.override_type # None
    THEN p.override_type \notin FloatDtype
    ELSE p.activations_type # None /\ p.activations_type \notin FloatDtype

\* Precision.has_quantized_activations
has_quantized_activations(p) ==
    \/ (p.activations_type # None /\ p.activations_type \notin FloatDtype)
    \/ (p.override_type # None /\ p.override_type \notin FloatDtype)

\* Precision.has_float_activations
has_float_activations(p) ==
    \/ p.activations_type = None
    \/ p.activations_type \in FloatDtype
    \/ (p.override_type # None /\ p.override_type \in FloatDtype)

\* EnabledPrecisionsEnvvar.get(): the set of entries of the override list.
EnabledPrecisionsEnvvar == env.precisions

Raised == [raised |-> "ValueError"]

\* A faulty variant of get_enabled_test_precisions: with several special settings it
\* goes on with one of them instead of raising.
get_enabled_test_precisions_first_special ==
    LET precisions_set == EnabledPrecisionsEnvvar
        precisions_special_settings == {p \in precisions_set : IsSpecial(p)}
        strings == {p \in precisions_set : IsStr(p)}
    IN  IF \E p \in strings : parse(strip(p.str)) = ParseError THEN Raised
        ELSE [special_precision_setting |->
                 IF precisions_special_settings = {} THEN None
                 ELSE (CHOOSE p \in precisions_special_settings : TRUE).special,
              extra_enabled_precisions |-> {parse(strip(p.str)) : p \in strings}]

\* get_enabled_test_precisions(): (special setting or None, extra precisions),
\* or Raised. The list of extra precisions is only ever merged into a set
\* by its caller, so it is kept as the set of its elements.
get_enabled_test_precisions ==
    LET precisions_set == EnabledPrecisionsEnvvar
        precisions_special_settings == {p \in precisions_set : IsSpecial(p)}
        strings == {p \in precisions_set : IsStr(p)}
    IN  IF Cardinality(precisions_special_settings) > 1 THEN Raised
        ELSE IF \E p \in strings : parse(strip(p.str)) = ParseError THEN Raised
        ELSE [special_precision_setting |->
                 IF precisions_special_settings = {} THEN None
                 ELSE (CHOOSE p \in precisions_special_settings : TRUE).special,
              extra_enabled_precisions |-> {parse(strip(p.str)) : p \in strings}]

get_bench_pytorch_w8a8_models == env.bench_w8a8_models
get_bench_pytorch_w8a16_models == env.bench_w8a16_models

\* A faulty variant of special_precisions: DEFAULT_MINUS_FLOAT keeps float.
special_precisions_keeping_float(special_precision_setting, model_id, model_supported_precisions) ==
    LET s1 == IF special_precision_setting \in {"DEFAULT", "DEFAULT_MINUS_FLOAT"}
              THEN model_supported_precisions ELSE {}
        s3 == IF special_precision_setting = "DEFAULT_QUANTIZED"
              THEN s1 \cup {IF w8a16 \in model_supported_precisions THEN w8a16 ELSE w8a8}
              ELSE s1
    IN  IF special_precision_setting = "BENCH"
        THEN s3
             \cup (IF float \in model_supported_precisions THEN {float} ELSE {})
             \cup (IF w8a8 \in model_supported_precisions
                      /\ model_id \in get_bench_pytorch_w8a8_models
                   THEN {w8a8} ELSE {})
             \cup (IF w8a16 \in model_supported_precisions
                      /\ model_id \in get_bench_pytorch_w8a16_models
                   THEN {w8a16} ELSE {})
        ELSE s3

\* A faulty variant of special_precisions: DEFAULT_QUANTIZED prefers w8a8.
special_precisions_preferring_w8a8(special_precision_setting, model_id, model_supported_precisions) ==
    LET s1 == IF special_precision_setting \in {"DEFAULT", "DEFAULT_MINUS_FLOAT"}
              THEN model_supported_precisions ELSE {}
        s2 == IF special_precision_setting = "DEFAULT_MINUS_FLOAT" /\ float \in s1
              THEN s1 \ {float} ELSE s1
        s3 == IF special_precision_setting = "DEFAULT_QUANTIZED"
              THEN s2 \cup {IF w8a8 \in model_supported_precisions THEN w8a8 ELSE w8a16}
              ELSE s2
    IN  IF special_precision_setting = "BENCH"
        THEN s3
             \cup (IF float \in model_supported_precisions THEN {float} ELSE {})
             \cup (IF w8a8 \in model_supported_precisions
                      /\ model_id \in get_bench_pytorch_w8a8_models
                   THEN {w8a8} ELSE {})
             \cup (IF w8a16 \in model_supported_precisions
                      /\ model_id \in get_bench_pytorch_w8a16_models
                   THEN {w8a16} ELSE {})
        ELSE s3

\* A faulty variant of special_precisions: BENCH does not look at the allow-lists.
special_precisions_bench_unlisted(special_precision_setting, model_id, model_supported_precisions) ==
    LET s1 == IF special_precision_setting \in {"DEFAULT", "DEFAULT_MINUS_FLOAT"}
              THEN model_supported_precisions ELSE {}
        s2 == IF special_precision_setting = "DEFAULT_MINUS_FLOAT" /\ float \in s1
              THEN s1 \ {float} ELSE s1
        s3 == IF special_precision_setting = "DEFAULT_QUANTIZED"
              THEN s2 \cup {IF w8a16 \in model_supported_precisions THEN w8a16 ELSE w8a8}
              ELSE s2
    IN  IF special_precision_setting = "BENCH"
        THEN s3 \cup (model_supported_precisions \cap {float, w8a8, w8a16})
        ELSE s3

\* A faulty variant of special_precisions: BENCH adds float, declared or not.
special_precisions_bench_float(special_precision_setting, model_id, model_supported_precisions) ==
    LET s1 == IF special_precision_setting \in {"DEFAULT", "DEFAULT_MINUS_FLOAT"}
              THEN model_supported_precisions ELSE {}
        s2 == IF special_precision_setting = "DEFAULT_MINUS_FLOAT" /\ float \in s1
              THEN s1 \ {float} ELSE s1
        s3 == IF special_precision_setting = "DEFAULT_QUANTIZED"
              THEN s2 \cup {IF w8a16 \in model_supported_precisions THEN w8a16 ELSE w8a8}
              ELSE s2
    IN  IF special_precision_setting = "BENCH"
        THEN s3
             \cup {float}
             \cup (IF w8a8 \in model_supported_precisions
                      /\ model_id \in get_bench_pytorch_w8a8_models
                   THEN {w8a8} ELSE {})
             \cup (IF w8a16 \in model_supported_precisions
                      /\ model_id \in get_bench_pytorch_w8a16_models
                   THEN {w8a16} ELSE {})
        ELSE s3

\* get_model_test_precisions, lines 147-178: the precisions that the special
\* setting enables.
special_precisions(special_precision_setting, model_id, model_supported_precisions) ==
    LET s1 == IF special_precision_setting \in {"DEFAULT", "DEFAULT_MINUS_FLOAT"}
              THEN model_supported_precisions ELSE {}
        s2 == IF special_precision_setting = "DEFAULT_MINUS_FLOAT" /\ float \in s1
              THEN s1 \ {float} ELSE s1
        s3 == IF special_precision_setting = "DEFAULT_QUANTIZED"
              THEN s2 \cup {IF w8a16 \in model_supported_precisions THEN w8a16 ELSE w8a8}
              ELSE s2
    IN  IF special_precision_setting = "BENCH"
        THEN s3
             \cup (IF float \in model_supported_precisions THEN {float} ELSE {})
             \cup (IF w8a8 \in model_supported_precisions
                      /\ model_id \in get_bench_pytorch_w8a8_models
                   THEN {w8a8} ELSE {})
             \cup (IF w8a16 \in model_supported_precisions
                      /\ model_id \in get_bench_pytorch_w8a16_models
                   THEN {w8a16} ELSE {})
        ELSE s3

\* A faulty variant of extra_precisions: every literal precision is added, quantize
\* job or not.
extra_precisions_unconditional(extra_enabled_precisions, model_supported_precisions, can_use_quantize_job) ==
    extra_enabled_precisions

\* get_model_test_precisions, lines 179-186: the literal precisions merged in.
extra_precisions(extra_enabled_precisions, model_supported_precisions, can_use_quantize_job) ==
    IF can_use_quantize_job
    THEN extra_enabled_precisions
    ELSE model_supported_precisions \cap extra_enabled_precisions

\* get_model_test_precisions: the set enabled_precisions that it builds from
\* the (non-raising) result of get_enabled_test_precisions.
enabled_precisions(enabled_test_precisions, model_id, model_supported_precisions, can_use_quantize_job) ==
    special_precisions(enabled_test_precisions.special_precision_setting,
                       model_id, model_supported_precisions)
       \cup extra_precisions(enabled_test_precisions.extra_enabled_precisions,
                             model_supported_precisions, can_use_quantize_job)

(***************************************************************************)
(* QAIRTVersion (models/common.py): toolchain versions, resolved against   *)
(* the list of frameworks that AI Hub serves and that is cached per URL.   *)
(***************************************************************************)
DEFAULT_AIHUB_TAG == <<"d", "e", "f", "a", "u", "l", "t">>
LATEST_AIHUB_TAG == <<"l", "a", "t", "e", "s", "t">>

\* QAIRTVersion.all_tags()
all_tags == <<DEFAULT_AIHUB_TAG, LATEST_AIHUB_TAG>>

DigitValue(c) ==
    CASE c = "0" -> 0 [] c = "1" -> 1 [] c = "2" -> 2 [] c = "3" -> 3 [] c = "4" -> 4
      [] c = "5" -> 5 [] c = "6" -> 6 [] c = "7" -> 7 [] c = "8" -> 8 [] c = "9" -> 9

\* int(s) for a string of digits.
RECURSIVE ToInt(_)
ToInt(s) ==
    IF s = <<>> THEN 0
    ELSE 10 * ToInt(SubSeq(s, 1, Len(s) - 1)) + DigitValue(s[Len(s)])

DigitChar(n) ==
    CASE n = 0 -> "0" [] n = 1 -> "1" [] n = 2 -> "2" [] n = 3 -> "3" [] n = 4 -> "4"
      [] n = 5 -> "5" [] n = 6 -> "6" [] n = 7 -> "7" [] n = 8 -> "8" [] n = 9 -> "9"

\* str(n) for a natural number, as in an f-string.
RECURSIVE IntToStr(_)
IntToStr(n) ==
    IF n < 10 THEN <<DigitChar(n)>> ELSE IntToStr(n \div 10) \o <<DigitChar(n % 10)>>

\* The dataclass QAIRTVersion.ParsedFramework; patch, ident and flavor are
\* Optional.
ParsedFramework(major, minor, patch, ident, flavor, tags) ==
    [major |-> major, minor |-> minor, patch |-> patch,
     ident |-> ident, flavor |-> flavor, tags |-> tags]

api_version(f) == IntToStr(f.major) \o <<".">> \o IntToStr(f.minor)

full_version(f) ==
    api_version(f)
       \o (IF f.patch # Nothing THEN <<".">> \o IntToStr(f.patch[1]) ELSE <<>>)
       \o (IF f.ident # Nothing THEN <<".">> \o f.ident[1] ELSE <<>>)

full_version_with_flavor(f) ==
    full_version(f)
       \o (IF f.flavor # Nothing /\ f.flavor[1] # <<>> THEN <<"-">> \o f.flavor[1] ELSE <<>>)

\* str.startswith
startswith(s, prefix) ==
    Len(prefix) <= Len(s) /\ SubSeq(s, 1, Len(prefix)) = prefix

\* A faulty variant of version_eq: the ident of other has to start with that
\* of self.
version_eq_one_way(self_, other) ==
    /\ self_.major = other.major
    /\ self_.minor = other.minor
    /\ (self_.patch = Nothing \/ other.patch = Nothing \/ self_.patch = other.patch)
    /\ (self_.ident = Nothing \/ other.ident = Nothing
           \/ startswith(other.ident[1], self_.ident[1]))
    /\ (self_.flavor = Nothing \/ other.flavor = Nothing \/ self_.flavor = other.flavor)

\* ParsedFramework.version_eq(self, other) for a ParsedFramework other.
version_eq(self_, other) ==
    /\ self_.major = other.major
    /\ self_.minor = other.minor
    /\ (self_.patch = Nothing \/ other.patch = Nothing \/ self_.patch = other.patch)
    /\ (self_.ident = Nothing \/ other.ident = Nothing
           \/ startswith(other.ident[1], self_.ident[1])
           \/ startswith(self_.ident[1], other.ident[1]))
    /\ (self_.flavor = Nothing \/ other.flavor = Nothing \/ self_.flavor = other.flavor)

\* ParsedFramework.copy()
ParsedFramework_copy(f) ==
    ParsedFramework(f.major, f.minor, f.patch, f.ident, f.flavor, f.tags)

\* Where the major digits start when the version pattern is tried at i: the
\* optional "v" is taken when it is there.
MajorStart(s, i) == IF i <= Len(s) /\ s[i] = "v" THEN i + 1 ELSE i

\* v?(\d+)\.(\d+) matches at position i.
MatchesAt(s, i) ==
    LET j == MajorStart(s, i)
        e == DigitsEnd(s, j)
    IN  e > j /\ e + 1 <= Len(s) /\ s[e] = "." /\ s[e + 1] \in Digits

\* The optional group (\.\d+)? tried at i: what it captures and where it ends.
PatchGroup(s, i) ==
    IF i + 1 <= Len(s) /\ s[i] = "." /\ s[i + 1] \in Digits
    THEN [tok |-> SubSeq(s, i, DigitsEnd(s, i + 1) - 1), next |-> DigitsEnd(s, i + 1)]
    ELSE [tok |-> NoToken, next |-> i]

\* The optional group (\.\d+\_?\d+)? tried at i: a dot and digits, then
\* either an underscore and more digits, or at least two digits in all.
IdentGroup(s, i) ==
    IF i + 1 <= Len(s) /\ s[i] = "." /\ s[i + 1] \in Digits
    THEN LET d == DigitsEnd(s, i + 1)
         IN  IF d + 1 <= Len(s) /\ s[d] = "_" /\ s[d + 1] \in Digits
             THEN [tok |-> SubSeq(s, i, DigitsEnd(s, d + 1) - 1), next |-> DigitsEnd(s, d + 1)]
             ELSE IF d - (i + 1) >= 2
             THEN [tok |-> SubSeq(s, i, d - 1), next |-> d]
             ELSE [tok |-> NoToken, next |-> i]
    ELSE [tok |-> NoToken, next |-> i]

\* The optional group (\-.*)? tried at i.
FlavorGroup(s, i) ==
    IF i <= Len(s) /\ s[i] = "-" THEN SubSeq(s, i, Len(s)) ELSE NoToken

\* ParsedFramework.parse_opt(version, tags): re.search finds the leftmost
\* match of the version pattern; Nothing when there is none.
parse_opt(version, tags) ==
    LET starts == {i \in 1..Len(version) : MatchesAt(version, i)}
    IN  IF starts = {} THEN Nothing
        ELSE LET i == CHOOSE k \in starts : \A n \in starts : k <= n
                 j == MajorStart(version, i)
                 e == DigitsEnd(version, j)
                 m == DigitsEnd(version, e + 1)
                 p == PatchGroup(version, m)
                 d == IdentGroup(version, p.next)
                 fl == FlavorGroup(version, d.next)
             IN  Some(ParsedFramework(
                        ToInt(SubSeq(version, j, e - 1)),
                        ToInt(SubSeq(version, e + 1, m - 1)),
                        IF p.tok # NoToken THEN Some(ToInt(Tail(p.tok))) ELSE Nothing,
                        IF d.tok # NoToken THEN Some(Tail(d.tok)) ELSE Nothing,
                        IF fl # NoToken THEN Some(Tail(fl)) ELSE Nothing,
                        tags))

\* A framework of the list AI Hub serves: its full version and its tags.
HubFramework(full_version_, api_tags) == [full_version |-> full_version_, api_tags |-> api_tags]

\* No hub API access: what _load_frameworks returns as URL in that case.
NoApiUrl == ""

\* _load_frameworks, the try block: it runs through when the client
\* configuration can be read and the list of the URL is cached already, or
\* can be fetched and every full version in it parses.
HubAccess(frameworks) ==
    /\ env.configured
    /\ \/ env.api_url \in DOMAIN frameworks
       \/ /\ env.online
          /\ \A i \in 1..Len(env.served[env.api_url]) :
                parse_opt(env.served[env.api_url][i].full_version, <<>>) # Nothing

\* _load_frameworks, line 227: the list of the URL is not cached, so
\* get_framework_list is called, and the Hub answers.
FetchesFrameworks(frameworks) ==
    /\ env.configured
    /\ env.api_url \notin DOMAIN frameworks
    /\ env.online

\* The list that _load_frameworks puts into the cache for the URL.
FetchedFrameworks ==
    [i \in 1..Len(env.served[env.api_url]) |->
        parse_opt(env.served[env.api_url][i].full_version,
                  env.served[env.api_url][i].api_tags)[1]]

\* A faulty variant of load_frameworks: without hub access the cache is
\* emptied.
load_frameworks_dropping_cache(frameworks, hub_default) ==
    IF HubAccess(frameworks)
    THEN IF env.api_url \in DOMAIN frameworks
         THEN [api_url |-> env.api_url, FRAMEWORKS |-> frameworks,
               HUB_DEFAULT_FRAMEWORK |-> hub_default]
         ELSE LET fetched == FetchedFrameworks
                  defaults == {i \in 1..Len(fetched) : DEFAULT_AIHUB_TAG \in Range(fetched[i].tags)}
              IN  [api_url |-> env.api_url,
                   FRAMEWORKS |-> (env.api_url :> fetched) @@ frameworks,
                   HUB_DEFAULT_FRAMEWORK |->
                      IF defaults = {} THEN hub_default
                      ELSE (env.api_url :> fetched[CHOOSE i \in defaults : \A k \in defaults : k <= i])
                              @@ hub_default]
    ELSE [api_url |-> NoApiUrl,
          FRAMEWORKS |-> (NoApiUrl :> <<>>),
          HUB_DEFAULT_FRAMEWORK |-> hub_default]

\* A faulty variant of load_frameworks: without hub access the cached
\* defaults are forgotten.
load_frameworks_forgetting_defaults(frameworks, hub_default) ==
    IF HubAccess(frameworks)
    THEN IF env.api_url \in DOMAIN frameworks
         THEN [api_url |-> env.api_url, FRAMEWORKS |-> frameworks,
               HUB_DEFAULT_FRAMEWORK |-> hub_default]
         ELSE LET fetched == FetchedFrameworks
                  defaults == {i \in 1..Len(fetched) : DEFAULT_AIHUB_TAG \in Range(fetched[i].tags)}
              IN  [api_url |-> env.api_url,
                   FRAMEWORKS |-> (env.api_url :> fetched) @@ frameworks,
                   HUB_DEFAULT_FRAMEWORK |->
                      IF defaults = {} THEN hub_default
                      ELSE (env.api_url :> fetched[CHOOSE i \in defaults : \A k \in defaults : k <= i])
                              @@ hub_default]
    ELSE [api_url |-> NoApiUrl,
          FRAMEWORKS |-> (NoApiUrl :> <<>>) @@ frameworks,
          HUB_DEFAULT_FRAMEWORK |-> <<>>]

\* QAIRTVersion._load_frameworks() on the caches given: the URL it returns
\* and the caches it leaves behind.
load_frameworks(frameworks, hub_default) ==
    IF HubAccess(frameworks)
    THEN IF env.api_url \in DOMAIN frameworks
         THEN [api_url |-> env.api_url, FRAMEWORKS |-> frameworks,
               HUB_DEFAULT_FRAMEWORK |-> hub_default]
         ELSE LET fetched == FetchedFrameworks
                  defaults == {i \in 1..Len(fetched) : DEFAULT_AIHUB_TAG \in Range(fetched[i].tags)}
              IN  [api_url |-> env.api_url,
                   FRAMEWORKS |-> (env.api_url :> fetched) @@ frameworks,
                   HUB_DEFAULT_FRAMEWORK |->
                      IF defaults = {} THEN hub_default
                      ELSE (env.api_url :> fetched[CHOOSE i \in defaults : \A k \in defaults : k <= i])
                              @@ hub_default]
    ELSE [api_url |-> NoApiUrl,
          FRAMEWORKS |-> (NoApiUrl :> <<>>) @@ frameworks,
          HUB_DEFAULT_FRAMEWORK |-> hub_default]

\* _HUB_DEFAULT_FRAMEWORK.get(api_url)
default_framework(loaded) ==
    IF loaded.api_url \in DOMAIN loaded.HUB_DEFAULT_FRAMEWORK
    THEN Some(loaded.HUB_DEFAULT_FRAMEWORK[loaded.api_url]) ELSE Nothing

\* The request of a constructor call: a string or a ParsedFramework.
Framework(f) == [framework |-> f]

user_parsed_framework(version_or_tag) ==
    IF IsStr(version_or_tag) THEN parse_opt(version_or_tag.str, <<>>)
    ELSE Some(version_or_tag.framework)

\* A faulty variant of FirstMatch: the last matching framework is taken.
LastMatch(version_or_tag, user, valid_hub_frameworks) ==
    LET matches == {i \in 1..Len(valid_hub_frameworks) :
                  IF user = Nothing
                  THEN version_or_tag.str \in Range(valid_hub_frameworks[i].tags)
                  ELSE version_eq(valid_hub_frameworks[i], user[1])}
    IN  IF matches = {} THEN Nothing
        ELSE Some(valid_hub_frameworks[CHOOSE i \in matches : \A k \in matches : k <= i])

\* The loop over valid_hub_frameworks: the first framework that has the tag
\* (for a request that does not parse) or that version_eq accepts.
FirstMatch(version_or_tag, user, valid_hub_frameworks) ==
    LET matches == {i \in 1..Len(valid_hub_frameworks) :
                  IF user = Nothing
                  THEN version_or_tag.str \in Range(valid_hub_frameworks[i].tags)
                  ELSE version_eq(valid_hub_frameworks[i], user[1])}
    IN  IF matches = {} THEN Nothing
        ELSE Some(valid_hub_frameworks[CHOOSE i \in matches : \A k \in matches : i <= k])

\* A faulty variant of chosen_framework: an unmatched request falls back to
\* the default framework whether or not that was asked for.
chosen_framework_always_defaulting(version_or_tag, user, loaded, return_default_if_does_not_exist, validate_exists_on_ai_hub) ==
    IF loaded.api_url # NoApiUrl /\ validate_exists_on_ai_hub
    THEN LET matched == FirstMatch(version_or_tag, user, loaded.FRAMEWORKS[loaded.api_url])
             chosen == IF matched = Nothing /\ default_framework(loaded) # Nothing
                       THEN default_framework(loaded)
                       ELSE matched
         IN  IF chosen # Nothing /\ user # Nothing
             THEN Some([ParsedFramework_copy(chosen[1]) EXCEPT !.flavor = user[1].flavor])
             ELSE chosen
    ELSE IF user # Nothing THEN user
    ELSE Some(ParsedFramework(0, 0, Nothing, Nothing, Nothing,
                 IF IsStr(version_or_tag) /\ version_or_tag.str \in Range(all_tags)
                 THEN <<version_or_tag.str>> ELSE <<>>))

\* A faulty variant of chosen_framework: without hub access a request that
\* does not parse yields nothing, so that the constructor raises.
chosen_framework_strict_offline(version_or_tag, user, loaded, return_default_if_does_not_exist, validate_exists_on_ai_hub) ==
    IF loaded.api_url # NoApiUrl /\ validate_exists_on_ai_hub
    THEN LET matched == FirstMatch(version_or_tag, user, loaded.FRAMEWORKS[loaded.api_url])
             chosen == IF matched = Nothing /\ return_default_if_does_not_exist
                          /\ default_framework(loaded) # Nothing
                       THEN default_framework(loaded)
                       ELSE matched
         IN  IF chosen # Nothing /\ user # Nothing
             THEN Some([ParsedFramework_copy(chosen[1]) EXCEPT !.flavor = user[1].flavor])
             ELSE chosen
    ELSE user

\* QAIRTVersion.__init__ after _load_frameworks, user being the local
\* user_parsed_framework: chosen_framework, Nothing when the constructor is
\* about to raise.
chosen_framework(version_or_tag, user, loaded, return_default_if_does_not_exist, validate_exists_on_ai_hub) ==
    IF loaded.api_url # NoApiUrl /\ validate_exists_on_ai_hub
    THEN LET matched == FirstMatch(version_or_tag, user, loaded.FRAMEWORKS[loaded.api_url])
             chosen == IF matched = Nothing /\ return_default_if_does_not_exist
                          /\ default_framework(loaded) # Nothing
                       THEN default_framework(loaded)
                       ELSE matched
         IN  IF chosen # Nothing /\ user # Nothing
             THEN Some([ParsedFramework_copy(chosen[1]) EXCEPT !.flavor = user[1].flavor])
             ELSE chosen
    ELSE IF user # Nothing THEN user
    ELSE Some(ParsedFramework(0, 0, Nothing, Nothing, Nothing,
                 IF IsStr(version_or_tag) /\ version_or_tag.str \in Range(all_tags)
                 THEN <<version_or_tag.str>> ELSE <<>>))

\* str(x) of a QAIRTVersion with hub access: its fields between the bars,
\* the API version, the full version with flavor and the tags.
QAIRTVersion_str(f) ==
    [api_version |-> api_version(f),
     full_version_with_flavor |-> full_version_with_flavor(f),
     tags |-> f.tags]

\* QAIRTVersion.all() on the loaded caches: QAIRTVersion(f) for every cached
\* framework f of the URL (each f matches itself, so none of them raises).
QAIRTVersion_all(loaded) ==
    [i \in 1..Len(loaded.FRAMEWORKS[loaded.api_url]) |->
        chosen_framework(Framework(loaded.FRAMEWORKS[loaded.api_url][i]),
                         Some(loaded.FRAMEWORKS[loaded.api_url][i]),
                         loaded, FALSE, TRUE)[1]]

\* The versions that the ValueError of the constructor lists.
all_versions_str(loaded) ==
    [i \in 1..Len(QAIRTVersion_all(loaded)) |-> QAIRTVersion_str(QAIRTVersion_all(loaded)[i])]

(***************************************************************************)
(* Scorecard paths and devices: the catalogs the resolver enumerates.      *)
(***************************************************************************)
PathTypes == {"ScorecardCompilePath", "ScorecardProfilePath"}

ScorecardPath(path_type, runtime) == [path_type |-> path_type, runtime |-> runtime]

\* The members of a path type, in catalog order: one path per runtime.
PathCatalog(path_type) ==
    [i \in 1..Len(TargetRuntime) |-> ScorecardPath(path_type, TargetRuntime[i])]

\* path.enabled: the runtime is among the ones QAIHM_TEST_PATHS enables.
path_enabled(path) == path.runtime \in env.paths

\* path_type.all_paths(enabled=True, supports_precision=..., include_genai_paths=...)
all_paths(path_type, precision, include_genai_paths) ==
    LET Keep(path) ==
            /\ path_enabled(path)
            /\ supports_precision(path.runtime, precision) = Some(TRUE)
            /\ (include_genai_paths \/ ~is_exclusively_for_genai(path.runtime))
    IN  SelectSeq(PathCatalog(path_type), Keep)

\* devices=None, as a value that is no list of devices.
NoDevices == <<None>>

\* The device catalog, in catalog order.
DeviceCatalog == <<"cs_universal", "cs_lite", "cs_mirror">>
Devices == Range(DeviceCatalog)

\* device.enabled: the device is among the ones QAIHM_TEST_DEVICES enables.
device_enabled(device) == device \in env.devices

is_mirror(device) == device = "cs_mirror"

npu_supports_precision(device, precision) ==
    IF device = "cs_lite" THEN precision \in {float, w8a8} ELSE TRUE

compile_paths(device) ==
    IF device = "cs_lite"
    THEN {ScorecardPath("ScorecardCompilePath", r) :
            r \in {"TFLITE", "QNN_DLC", "ONNX", "PRECOMPILED_QNN_ONNX", "GENIE"}}
    ELSE Range(PathCatalog("ScorecardCompilePath"))

profile_paths(device) ==
    IF device = "cs_lite"
    THEN {ScorecardPath("ScorecardProfilePath", r) :
            r \in {"TFLITE", "QNN_DLC", "QNN_CONTEXT_BINARY"}}
    ELSE Range(PathCatalog("ScorecardProfilePath"))

\* ScorecardDevice.all_devices(is_mirror=...): None filters nothing.
all_devices(mirror_filter) ==
    LET Keep(device) == mirror_filter = None \/ (is_mirror(device) <=> mirror_filter = "True")
    IN  SelectSeq(DeviceCatalog, Keep)

(***************************************************************************)
(* get_model_test_parameterizations (scorecard/execution_helpers.py)       *)
(***************************************************************************)
\* dict.get(key, []) on a dict of lists.
DictGet(dict, key) == IF key \in DOMAIN dict THEN dict[key] ELSE <<>>

\* A faulty variant of ExecutionModeFilter: requires_aot_prepare is looked at first.
ExecutionModeFilterAotFirst(path_list, requires_aot_prepare, only_include_genai_paths) ==
    LET GenAI(path) == is_exclusively_for_genai(path.runtime)
        AOT(path) == is_aot_compiled(path.runtime)
        JIT(path) == ~is_aot_compiled(path.runtime)
    IN  IF requires_aot_prepare THEN SelectSeq(path_list, AOT)
        ELSE IF only_include_genai_paths THEN SelectSeq(path_list, GenAI)
        ELSE SelectSeq(path_list, JIT)

\* Lines 278-288: the execution-mode filter.
ExecutionModeFilter(path_list, requires_aot_prepare, only_include_genai_paths) ==
    LET GenAI(path) == is_exclusively_for_genai(path.runtime)
        AOT(path) == is_aot_compiled(path.runtime)
        JIT(path) == ~is_aot_compiled(path.runtime)
    IN  IF only_include_genai_paths THEN SelectSeq(path_list, GenAI)
        ELSE IF requires_aot_prepare THEN SelectSeq(path_list, AOT)
        ELSE SelectSeq(path_list, JIT)

\* A faulty variant of SupportedFilter: a precision the model does not declare is not
\* filtered at all.
SupportedFilterDeclaredOnly(path_list, supported_paths, precision, include_unsupported_paths) ==
    LET Supported(path) == path.runtime \in Range(DictGet(supported_paths, precision))
    IN  IF ~include_unsupported_paths /\ precision \in DOMAIN supported_paths
        THEN SelectSeq(path_list, Supported) ELSE path_list

\* Lines 290-295: the paths the model declares for this precision.
SupportedFilter(path_list, supported_paths, precision, include_unsupported_paths) ==
    LET supported_runtime_list == DictGet(supported_paths, precision)
        Supported(path) == path.runtime \in Range(supported_runtime_list)
    IN  IF ~include_unsupported_paths THEN SelectSeq(path_list, Supported) ELSE path_list

\* Lines 297-301: timeout paths never run.
TimeoutFilter(path_list, timeout_paths, precision) ==
    LET timeout_precision_paths == DictGet(timeout_paths, precision)
        NoTimeout(path) == path.runtime \notin Range(timeout_precision_paths)
    IN  SelectSeq(path_list, NoTimeout)

\* A faulty variant of CandidateDevices: an explicit list is added to the catalog's
\* devices instead of replacing them.
CandidateDevicesAdded(devices) ==
    IF devices # NoDevices /\ devices # <<>>
    THEN devices \o all_devices("False") ELSE all_devices("False")

\* Line 306: devices or ScorecardDevice.all_devices(is_mirror=False); an
\* empty list is falsy, like None.
CandidateDevices(devices) ==
    IF devices # NoDevices /\ devices # <<>> THEN devices ELSE all_devices("False")

\* A faulty variant of DeviceAccepted: the NPU's precision support is not checked.
DeviceAcceptedAnyPrecision(device, precision, sc_path) ==
    /\ device_enabled(device)
    /\ (sc_path \in compile_paths(device) \/ sc_path \in profile_paths(device))

\* A faulty variant of DeviceAccepted: a disabled device is not skipped.
DeviceAcceptedWhenDisabled(device, precision, sc_path) ==
    /\ npu_supports_precision(device, precision)
    /\ (sc_path \in compile_paths(device) \/ sc_path \in profile_paths(device))

\* Lines 307-313: the device checks of the inner loop.
DeviceAccepted(device, precision, sc_path) ==
    /\ device_enabled(device)
    /\ npu_supports_precision(device, precision)
    /\ (sc_path \in compile_paths(device) \/ sc_path \in profile_paths(device))

\* Lines 305-315: the triples appended for one path.
PathTriples(precision, sc_path, devices) ==
    LET Accept(device) == DeviceAccepted(device, precision, sc_path)
        accepted == SelectSeq(CandidateDevices(devices), Accept)
    IN  [i \in 1..Len(accepted) |-> <<precision, sc_path, accepted[i]>>]

\* A faulty variant of PathList: the timeout paths are kept when unsupported paths
\* are included.
PathListTimeoutsOverridden(precision, a, include_unsupported_paths) ==
    LET listed == all_paths(a.path_type, precision, a.only_include_genai_paths)
        by_mode == ExecutionModeFilter(listed, a.requires_aot_prepare,
                                       a.only_include_genai_paths)
        by_model == SupportedFilter(by_mode, a.supported_paths, precision,
                                    include_unsupported_paths)
    IN  IF include_unsupported_paths THEN by_model
        ELSE TimeoutFilter(by_model, a.timeout_paths, precision)

\* Lines 272-301: path_list of one precision, after the filters.
PathList(precision, a, include_unsupported_paths) ==
    LET listed == all_paths(a.path_type, precision, a.only_include_genai_paths)
        by_mode == ExecutionModeFilter(listed, a.requires_aot_prepare,
                                       a.only_include_genai_paths)
        by_model == SupportedFilter(by_mode, a.supported_paths, precision,
                                    include_unsupported_paths)
    IN  TimeoutFilter(by_model, a.timeout_paths, precision)

\* A faulty variant of PrecisionTriples: the device loop is outside the path loop.
PrecisionTriplesDeviceMajor(precision, a, include_unsupported_paths) ==
    LET path_list == PathList(precision, a, include_unsupported_paths)
        candidates == CandidateDevices(a.devices)
        OnDevice(device) ==
            LET Accept(sc_path) == DeviceAccepted(device, precision, sc_path)
                accepted == SelectSeq(path_list, Accept)
            IN  [k \in 1..Len(accepted) |-> <<precision, accepted[k], device>>]
    IN  Flatten([i \in 1..Len(candidates) |-> OnDevice(candidates[i])])

\* Lines 270-315: the triples appended for one precision.
PrecisionTriples(precision, a, include_unsupported_paths) ==
    LET path_list == PathList(precision, a, include_unsupported_paths)
    IN  Flatten([k \in 1..Len(path_list) |-> PathTriples(precision, path_list[k], a.devices)])

\* Lines 259-316 after the precisions are known: the returned list.
Parameterizations(precisions, a, include_unsupported_paths) ==
    Flatten([i \in 1..Len(precisions) |->
                PrecisionTriples(precisions[i], a, include_unsupported_paths)])

(***************************************************************************)
(* get_evaluation_parameterized_pytest_config                              *)
(***************************************************************************)
cs_universal == "cs_universal"

\* ScorecardDevice.all_devices(enabled=True)
all_enabled_devices == SelectSeq(all_devices(None), device_enabled)

\* Lines 401-413: the device that is evaluated on, or Nothing when
\* ValueError is raised.
evaluation_device(device) ==
    LET NotUniversal(d) == d # cs_universal
        enabled_devices == SelectSeq(all_enabled_devices, NotUniversal)
    IN  IF device \notin Range(enabled_devices)
        THEN IF Len(enabled_devices) = 1 THEN Some(enabled_devices[1]) ELSE Nothing
        ELSE Some(device)

(***************************************************************************)
(* Bounds and the input sets the calls are drawn from.                     *)
(***************************************************************************)
MaxDevicesArg == 2        \* longest explicit `devices` list
MaxOverrides == 2         \* entries of QAIHM_TEST_PRECISIONS

AllRuntimes == Range(TargetRuntime)

\* Literal entries of QAIHM_TEST_PRECISIONS, as they come out of the split
\* on commas (one of them keeps the blank that followed the comma).
LiteralStrings ==
    { <<"w", "8", "a", "8">>,
      <<"a", "1", "6", "w", "8">>,
      <<" ", "w", "8", "a", "1", "6">>,
      <<"f", "l", "o", "a", "t">>,
      <<"w", "3">> }

OverrideEntries ==
    {Special(k) : k \in SpecialPrecisionSetting} \cup {Str(t) : t \in LiteralStrings}

OverrideLists == {S \in SUBSET OverrideEntries : Cardinality(S) <= MaxOverrides}

DeclarablePrecisions == {float, w8a8, w8a16, w4}

ModelIds == {"model_a"}

\* Model ids the bench allow-list files may hold.
BenchModelIds == ModelIds \cup {"model_b"}

\* Precisions a model under quantization declares, and the key sets of its
\* supported_paths.
QuantizeDeclarablePrecisions ==
    {float, w8a8, w8a16, w4, w8a8_mixed_fp16, w8a16_mixed_fp16, w8a8_mixed_int16}

MaxDeclared == 3          \* keys of supported_paths in the quantize calls

QuantizeDeclaredSets ==
    {S \in SUBSET QuantizeDeclarablePrecisions : Cardinality(S) <= MaxDeclared}

\* QAIHM_TEST_DEVICES: every device, or every device but one.
EnabledDeviceSets == {Devices} \cup {Devices \ {d} : d \in Devices}

EnabledRuntimeSets == {AllRuntimes, AllRuntimes \ {"QNN_DLC", "ONNXRUNTIME_GENAI"}}

DevicesArgs ==
    {NoDevices} \cup SeqsUpTo(Devices, MaxDevicesArg)

\* Override lists of the parameterization calls: the default, a quantized
\* default, literals beside or instead of the default, two special settings.
MatrixOverrideLists ==
    { {Special("DEFAULT")},
      {Special("DEFAULT_QUANTIZED")},
      {Special("DEFAULT"), Str(<<" ", "w", "8", "a", "1", "6">>)},
      {Str(<<"w", "8", "a", "8">>), Str(<<"a", "1", "6", "w", "8">>)},
      {Special("DEFAULT"), Special("BENCH")} }

SupportedPathsChoices ==
    { <<>>,
      (w8a8 :> <<"TFLITE", "QNN_DLC", "QNN_CONTEXT_BINARY", "GENIE">>),
      (float :> <<"TFLITE", "ONNX", "PRECOMPILED_QNN_ONNX">>)
         @@ (w8a16 :> <<"TFLITE", "QNN_DLC", "QNN_CONTEXT_BINARY", "ONNXRUNTIME_GENAI">>),
      (float :> <<"QNN_DLC">>)
         @@ (w8a8 :> <<"ONNX", "PRECOMPILED_QNN_ONNX", "GENIE">>)
         @@ (w8a16 :> <<"ONNX", "QNN_CONTEXT_BINARY">>) }

TimeoutPathsChoices ==
    { <<>>,
      (float :> <<"TFLITE">>)
         @@ (w8a8 :> <<"QNN_DLC", "GENIE">>)
         @@ (w8a16 :> <<"QNN_CONTEXT_BINARY", "ONNX">>) }

(***************************************************************************)
(* The calls                                                               *)
(***************************************************************************)
\* ClientStateSingleton at import: the class attribute is None, no object
\* has been constructed.
NoClientState ==
    /\ ClientStateSingleton_instance = Nothing
    /\ instances = <<>>
    /\ on_staging_calls = 0

\* Nothing constructed, nothing cached: the class state at import.
NoQAIRT ==
    /\ FRAMEWORKS = <<>>
    /\ HUB_DEFAULT_FRAMEWORK = <<>>
    /\ self = [api_url |-> NoApiUrl, framework |-> Nothing]
    /\ message = <<>>
    /\ fetches = <<>>
    /\ threads = <<>>
    /\ NoClientState

InitResults ==
    /\ outcome = "pending"
    /\ test_precisions = <<>>
    /\ ret = <<>>

\* A call of get_model_test_parameterizations in some test environment.
Init ==
    /\ env \in [precisions : MatrixOverrideLists,
                paths : EnabledRuntimeSets,
                devices : EnabledDeviceSets,
                bench_w8a8_models : {{}},
                bench_w8a16_models : {{}}]
    /\ args \in [fn : {"get_model_test_parameterizations"},
                 model_id : ModelIds,
                 supported_paths : SupportedPathsChoices,
                 timeout_paths : TimeoutPathsChoices,
                 path_type : PathTypes,
                 can_use_quantize_job : BOOLEAN,
                 devices : DevicesArgs,
                 include_unsupported_paths : {None, "True", "False"},
                 requires_aot_prepare : BOOLEAN,
                 only_include_genai_paths : BOOLEAN]
    /\ InitResults
    /\ NoQAIRT

\* A call of get_model_test_precisions in some test environment.
InitPrecisions ==
    /\ env \in [precisions : OverrideLists,
                paths : {AllRuntimes},
                devices : {Devices},
                bench_w8a8_models : SUBSET BenchModelIds,
                bench_w8a16_models : SUBSET BenchModelIds]
    /\ args \in [fn : {"get_model_test_precisions"},
                 model_id : ModelIds,
                 model_supported_precisions : SUBSET DeclarablePrecisions,
                 can_use_quantize_job : BOOLEAN]
    /\ InitResults
    /\ NoQAIRT

\* get_model_test_precisions(model_id, model_supported_precisions,
\* can_use_quantize_job): raises, or returns list(enabled_precisions).
get_model_test_precisions ==
    /\ outcome = "pending"
    /\ args.fn = "get_model_test_precisions"
    /\ IF get_enabled_test_precisions = Raised
       THEN /\ outcome' = "ValueError"
            /\ UNCHANGED test_precisions
       ELSE /\ \E order \in Orderings(enabled_precisions(
                                get_enabled_test_precisions, args.model_id,
                                args.model_supported_precisions,
                                args.can_use_quantize_job)) :
                  test_precisions' = order
            /\ outcome' = "returned"
    /\ UNCHANGED <<env, args, ret, qairt_vars, client_vars>>

\* A call of get_quantize_parameterized_pytest_config in some test
\* environment; only the keys of supported_paths are looked at.
InitQuantize ==
    /\ env \in [precisions : OverrideLists,
                paths : {AllRuntimes},
                devices : {Devices},
                bench_w8a8_models : SUBSET ModelIds,
                bench_w8a16_models : SUBSET ModelIds]
    /\ args \in [fn : {"get_quantize_parameterized_pytest_config"},
                 model_id : ModelIds,
                 supported_paths : {[p \in S |-> <<>>] : S \in QuantizeDeclaredSets},
                 can_use_quantize_job : BOOLEAN]
    /\ InitResults
    /\ NoQAIRT

\* get_quantize_parameterized_pytest_config(model_id, supported_paths,
\* can_use_quantize_job): raises, or returns the test precisions that have
\* quantized activations, in the order get_model_test_precisions gave.
get_quantize_parameterized_pytest_config ==
    /\ outcome = "pending"
    /\ args.fn = "get_quantize_parameterized_pytest_config"
    /\ IF get_enabled_test_precisions = Raised
       THEN /\ outcome' = "ValueError"
            /\ UNCHANGED <<test_precisions, ret>>
       ELSE /\ \E precisions \in Orderings(enabled_precisions(
                                get_enabled_test_precisions, args.model_id,
                                DOMAIN args.supported_paths,
                                args.can_use_quantize_job)) :
                  /\ test_precisions' = precisions
                  /\ ret' = SelectSeq(precisions, has_quantized_activations)
            /\ outcome' = "returned"
    /\ UNCHANGED <<env, args, qairt_vars, client_vars>>

\* get_model_test_parameterizations(...): include_unsupported_paths is
\* reassigned from IgnoreKnownFailuresEnvvar when it is None, the precisions
\* are resolved (which may raise), then the triples are accumulated.
get_model_test_parameterizations ==
    /\ outcome = "pending"
    /\ args.fn = "get_model_test_parameterizations"
    /\ \E flag \in (IF args.include_unsupported_paths = None
                    THEN {"True", "False"}
                    ELSE {args.include_unsupported_paths}) :
          /\ args' = [args EXCEPT !.include_unsupported_paths = flag]
          /\ IF get_enabled_test_precisions = Raised
             THEN /\ outcome' = "ValueError"
                  /\ UNCHANGED <<test_precisions, ret>>
             ELSE \E order \in Orderings(enabled_precisions(
                                   get_enabled_test_precisions, args.model_id,
                                   DOMAIN args.supported_paths,
                                   args.can_use_quantize_job)) :
                    /\ test_precisions' = order
                    /\ ret' = Parameterizations(order, args, flag = "True")
                    /\ outcome' = "returned"
    /\ UNCHANGED <<env, qairt_vars, client_vars>>

\* A call of get_evaluation_parameterized_pytest_config in some test
\* environment; path_type, devices, include_unsupported_paths and
\* only_include_genai_paths are what get_model_test_parameterizations is
\* called with (devices once the device is known).
InitEvaluation ==
    /\ env \in [precisions : MatrixOverrideLists,
                paths : EnabledRuntimeSets,
                devices : SUBSET Devices,
                bench_w8a8_models : {{}},
                bench_w8a16_models : {{}}]
    /\ args \in [fn : {"get_evaluation_parameterized_pytest_config"},
                 model_id : ModelIds,
                 supported_paths : SupportedPathsChoices,
                 timeout_paths : TimeoutPathsChoices,
                 can_use_quantize_job : BOOLEAN,
                 device : Devices,
                 requires_aot_prepare : BOOLEAN,
                 path_type : {"ScorecardProfilePath"},
                 devices : {NoDevices},
                 include_unsupported_paths : {None},
                 only_include_genai_paths : {FALSE}]
    /\ InitResults
    /\ NoQAIRT

\* get_evaluation_parameterized_pytest_config(...): the device is settled
\* (which may raise), then get_model_test_parameterizations runs with
\* [device] as its devices.
get_evaluation_parameterized_pytest_config ==
    /\ outcome = "pending"
    /\ args.fn = "get_evaluation_parameterized_pytest_config"
    /\ \E device \in {evaluation_device(args.device)} :
          IF device = Nothing
          THEN /\ outcome' = "ValueError"
               /\ UNCHANGED <<args, test_precisions, ret>>
          ELSE \E flag \in {"True", "False"} :
                 /\ args' = [args EXCEPT !.devices = <<device[1]>>,
                                         !.include_unsupported_paths = flag]
                 /\ IF get_enabled_test_precisions = Raised
                    THEN /\ outcome' = "ValueError"
                         /\ UNCHANGED <<test_precisions, ret>>
                    ELSE \E order \in Orderings(enabled_precisions(
                                          get_enabled_test_precisions, args.model_id,
                                          DOMAIN args.supported_paths,
                                          args.can_use_quantize_job)) :
                           /\ test_precisions' = order
                           /\ ret' = Parameterizations(order, [args EXCEPT !.devices = <<device[1]>>],
                                                       flag = "True")
                           /\ outcome' = "returned"
    /\ UNCHANGED <<env, qairt_vars, client_vars>>

Next == get_model_test_parameterizations

Spec == Init /\ [][Next]_vars

NextEvaluation == get_evaluation_parameterized_pytest_config

SpecEvaluation == InitEvaluation /\ [][NextEvaluation]_vars

NextPrecisions == get_model_test_precisions

SpecPrecisions == InitPrecisions /\ [][NextPrecisions]_vars

NextQuantize == get_quantize_parameterized_pytest_config

SpecQuantize == InitQuantize /\ [][NextQuantize]_vars

(***************************************************************************)
(* Constructor calls of QAIRTVersion and calls of version_eq               *)
(***************************************************************************)
ApiUrls == {"prod", "staging"}

\* Lists of QAIRT frameworks that a Hub deployment may serve.
ServedReleases ==
    <<HubFramework(<<"2", ".", "3", "6", ".", "4", ".", "2", "4">>, <<>>),
      HubFramework(<<"2", ".", "3", "7", ".", "0", ".", "2", "5">>, <<DEFAULT_AIHUB_TAG>>),
      HubFramework(<<"2", ".", "3", "7", ".", "1", ".", "2", "6">>, <<LATEST_AIHUB_TAG>>)>>

ServedSingle ==
    <<HubFramework(<<"2", ".", "3", "7", ".", "1", ".", "2", "6">>, <<DEFAULT_AIHUB_TAG, LATEST_AIHUB_TAG>>)>>

ServedWithoutDefault ==
    <<HubFramework(<<"2", ".", "3", "6", ".", "4", ".", "2", "4">>, <<>>),
      HubFramework(<<"2", ".", "3", "7", ".", "1", ".", "2", "6">>, <<LATEST_AIHUB_TAG>>)>>

ServedUnparseable ==
    <<HubFramework(<<"2", ".", "3", "7", ".", "0", ".", "2", "5">>, <<DEFAULT_AIHUB_TAG>>),
      HubFramework(<<"u", "n", "k", "n", "o", "w", "n">>, <<>>)>>

\* Two builds of one patch release, the ident of one a prefix of the other's.
ServedRebuilt ==
    <<HubFramework(<<"2", ".", "3", "8", ".", "0", ".", "2", "5">>, <<LATEST_AIHUB_TAG>>),
      HubFramework(<<"2", ".", "3", "8", ".", "0", ".", "2", "5", "0">>, <<DEFAULT_AIHUB_TAG>>)>>

ServedChoices ==
    { ("prod" :> ServedReleases) @@ ("staging" :> ServedSingle),
      ("prod" :> ServedWithoutDefault) @@ ("staging" :> ServedUnparseable),
      ("prod" :> ServedRebuilt) @@ ("staging" :> ServedReleases) }

\* Strings passed as version_or_tag.
RequestStrings ==
    { <<"2", ".", "3", "7">>, <<"2", ".", "3", "7", ".", "1">>, <<"2", ".", "3", "7", ".", "2">>, <<"v", "2", ".", "3", "7", "-", "a", "u", "t", "o">>, <<"2", ".", "3", "8", ".", "0", ".", "2", "5", "0">>, <<"2", ".", "4", "0">>,
      <<"d", "e", "f", "a", "u", "l", "t">>, <<"l", "a", "t", "e", "s", "t">>, <<"f", "o", "o">>, <<"q", "a", "i", "r", "t">> }

QAIRTArgs ==
    [fn : {"QAIRTVersion"},
     version_or_tag : {Str(s) : s \in RequestStrings},
     return_default_if_does_not_exist : BOOLEAN,
     validate_exists_on_ai_hub : BOOLEAN]

MaxFetches == 3           \* answers of get_framework_list for one URL

\* How often get_framework_list has answered for the URL.
Fetched(url) == IF url \in DOMAIN fetches THEN fetches[url] ELSE 0

HubConfigs(served) ==
    [configured : BOOLEAN, online : BOOLEAN, api_url : ApiUrls, served : {served}]

InitQAIRT ==
    /\ env \in UNION {HubConfigs(served) : served \in ServedChoices}
    /\ args \in QAIRTArgs
    /\ InitResults
    /\ NoQAIRT

\* QAIRTVersion(version_or_tag, return_default_if_does_not_exist,
\* validate_exists_on_ai_hub): loads the frameworks (filling the caches),
\* chooses a framework and raises when there is none.
QAIRTVersion_init ==
    /\ outcome = "pending"
    /\ args.fn = "QAIRTVersion"
    /\ \E user \in {user_parsed_framework(args.version_or_tag)},
          loaded \in {load_frameworks(FRAMEWORKS, HUB_DEFAULT_FRAMEWORK)} :
          \E chosen \in {chosen_framework(args.version_or_tag, user, loaded,
                                          args.return_default_if_does_not_exist,
                                          args.validate_exists_on_ai_hub)} :
             /\ FRAMEWORKS' = loaded.FRAMEWORKS
             /\ HUB_DEFAULT_FRAMEWORK' = loaded.HUB_DEFAULT_FRAMEWORK
             /\ self' = [api_url |-> loaded.api_url, framework |-> chosen]
             /\ IF chosen = Nothing
                THEN /\ outcome' = "ValueError"
                     /\ message' = all_versions_str(loaded)
                ELSE /\ outcome' = "returned"
                     /\ message' = <<>>
    /\ fetches' = IF FetchesFrameworks(FRAMEWORKS)
                  THEN (env.api_url :> Fetched(env.api_url) + 1) @@ fetches
                  ELSE fetches
    /\ UNCHANGED <<env, args, test_precisions, ret, threads, client_vars>>

\* Between two constructor calls of one process: the client configuration
\* and the network may have changed, the class-level caches stay.
NextRequest ==
    /\ outcome # "pending"
    /\ args.fn = "QAIRTVersion"
    /\ \A url \in ApiUrls : Fetched(url) < MaxFetches
    /\ env' \in HubConfigs(env.served)
    /\ args' \in QAIRTArgs
    /\ outcome' = "pending"
    /\ self' = [api_url |-> NoApiUrl, framework |-> Nothing]
    /\ message' = <<>>
    /\ UNCHANGED <<FRAMEWORKS, HUB_DEFAULT_FRAMEWORK, test_precisions, ret, fetches, threads,
                   client_vars>>

NextQAIRT == QAIRTVersion_init \/ NextRequest

SpecQAIRT == InitQAIRT /\ [][NextQAIRT]_vars

(***************************************************************************)
(* Two threads of one process, each constructing a QAIRTVersion from the   *)
(* same request. The steps of _load_frameworks are interleaved; a step is  *)
(* at most one access to a class-level dict.                               *)
(***************************************************************************)
Threads == {1, 2}

ThreadStart ==
    [pc |-> "config", api_url |-> NoApiUrl, fetched |-> <<>>, todo |-> <<>>,
     frameworks |-> <<>>, default |-> Nothing, framework |-> Nothing, outcome |-> "pending"]

InitThreads ==
    /\ env \in UNION {HubConfigs(served) : served \in ServedChoices}
    /\ args \in QAIRTArgs
    /\ InitResults
    /\ FRAMEWORKS = <<>>
    /\ HUB_DEFAULT_FRAMEWORK = <<>>
    /\ self = [api_url |-> NoApiUrl, framework |-> Nothing]
    /\ message = <<>>
    /\ fetches = <<>>
    /\ threads = [t \in Threads |-> ThreadStart]
    /\ NoClientState

\* Line 223: api_url = _global_client.config.api_url, which raises when the
\* client is not configured.
LoadConfig(t) ==
    /\ threads[t].pc = "config"
    /\ threads' = [threads EXCEPT ![t].pc = IF env.configured THEN "cached" ELSE "except",
                                  ![t].api_url = IF env.configured THEN env.api_url ELSE NoApiUrl]
    /\ UNCHANGED <<env, args, outcome, test_precisions, ret, client_vars,
                   FRAMEWORKS, HUB_DEFAULT_FRAMEWORK, self, message, fetches>>

\* Line 224: if api_url not in QAIRTVersion._FRAMEWORKS
LoadCached(t) ==
    /\ threads[t].pc = "cached"
    /\ threads' = [threads EXCEPT ![t].pc = IF threads[t].api_url \in DOMAIN FRAMEWORKS
                                            THEN "frameworks" ELSE "fetch"]
    /\ UNCHANGED <<env, args, outcome, test_precisions, ret, client_vars,
                   FRAMEWORKS, HUB_DEFAULT_FRAMEWORK, self, message, fetches>>

\* Lines 225-229, the right-hand side: get_framework_list and the parse of
\* every full version; either of them may raise.
LoadFetch(t) ==
    /\ threads[t].pc = "fetch"
    /\ IF env.online /\ HubAccess(<<>>)
       THEN threads' = [threads EXCEPT ![t].pc = "store", ![t].fetched = FetchedFrameworks]
       ELSE threads' = [threads EXCEPT ![t].pc = "except"]
    /\ fetches' = IF env.online
                  THEN (env.api_url :> Fetched(env.api_url) + 1) @@ fetches
                  ELSE fetches
    /\ UNCHANGED <<env, args, outcome, test_precisions, ret, client_vars,
                   FRAMEWORKS, HUB_DEFAULT_FRAMEWORK, self, message>>

\* Line 225, the assignment: QAIRTVersion._FRAMEWORKS[api_url] = [...]
LoadStore(t) ==
    /\ threads[t].pc = "store"
    /\ FRAMEWORKS' = (threads[t].api_url :> threads[t].fetched) @@ FRAMEWORKS
    /\ threads' = [threads EXCEPT ![t].pc = "loop"]
    /\ UNCHANGED <<env, args, outcome, test_precisions, ret, client_vars,
                   HUB_DEFAULT_FRAMEWORK, self, message, fetches>>

\* Line 230: for framework in QAIRTVersion._FRAMEWORKS[api_url]
LoadLoop(t) ==
    /\ threads[t].pc = "loop"
    /\ threads' = [threads EXCEPT ![t].pc = "default", ![t].todo = FRAMEWORKS[threads[t].api_url]]
    /\ UNCHANGED <<env, args, outcome, test_precisions, ret, client_vars,
                   FRAMEWORKS, HUB_DEFAULT_FRAMEWORK, self, message, fetches>>

\* Lines 231-232, one iteration: a framework tagged as default is put into
\* _HUB_DEFAULT_FRAMEWORK[api_url]; after the last one the loop is left.
LoadDefault(t) ==
    /\ threads[t].pc = "default"
    /\ IF threads[t].todo = <<>>
       THEN /\ threads' = [threads EXCEPT ![t].pc = "frameworks"]
            /\ UNCHANGED HUB_DEFAULT_FRAMEWORK
       ELSE /\ threads' = [threads EXCEPT ![t].todo = Tail(threads[t].todo)]
            /\ HUB_DEFAULT_FRAMEWORK' =
                  IF DEFAULT_AIHUB_TAG \in Range(Head(threads[t].todo).tags)
                  THEN (threads[t].api_url :> Head(threads[t].todo)) @@ HUB_DEFAULT_FRAMEWORK
                  ELSE HUB_DEFAULT_FRAMEWORK
    /\ UNCHANGED <<env, args, outcome, test_precisions, ret, client_vars,
                   FRAMEWORKS, self, message, fetches>>

\* Lines 234-237: no hub API access.
LoadExcept(t) ==
    /\ threads[t].pc = "except"
    /\ FRAMEWORKS' = (NoApiUrl :> <<>>) @@ FRAMEWORKS
    /\ threads' = [threads EXCEPT ![t].pc = "frameworks", ![t].api_url = NoApiUrl]
    /\ UNCHANGED <<env, args, outcome, test_precisions, ret, client_vars,
                   HUB_DEFAULT_FRAMEWORK, self, message, fetches>>

\* Line 241: QAIRTVersion._FRAMEWORKS[api_url], for the tuple returned.
LoadFrameworks(t) ==
    /\ threads[t].pc = "frameworks"
    /\ threads' = [threads EXCEPT ![t].pc = "get_default",
                                  ![t].frameworks = FRAMEWORKS[threads[t].api_url]]
    /\ UNCHANGED <<env, args, outcome, test_precisions, ret, client_vars,
                   FRAMEWORKS, HUB_DEFAULT_FRAMEWORK, self, message, fetches>>

\* Line 242: QAIRTVersion._HUB_DEFAULT_FRAMEWORK.get(api_url), and the return.
LoadGetDefault(t) ==
    /\ threads[t].pc = "get_default"
    /\ threads' = [threads EXCEPT ![t].pc = "choose",
                                  ![t].default =
                                      IF threads[t].api_url \in DOMAIN HUB_DEFAULT_FRAMEWORK
                                      THEN Some(HUB_DEFAULT_FRAMEWORK[threads[t].api_url])
                                      ELSE Nothing]
    /\ UNCHANGED <<env, args, outcome, test_precisions, ret, client_vars,
                   FRAMEWORKS, HUB_DEFAULT_FRAMEWORK, self, message, fetches>>

\* What _load_frameworks returned to the thread, in the shape that
\* chosen_framework takes.
Loaded(t) ==
    [api_url |-> threads[t].api_url,
     FRAMEWORKS |-> (threads[t].api_url :> threads[t].frameworks),
     HUB_DEFAULT_FRAMEWORK |->
        IF threads[t].default = Nothing THEN <<>>
        ELSE (threads[t].api_url :> threads[t].default[1])]

\* Lines 73-116 of the constructor, which work on what was returned: the
\* framework is chosen, or ValueError is raised (its message is built from
\* the list of the URL, which is cached when this is reached).
ChooseFramework(t) ==
    /\ threads[t].pc = "choose"
    /\ \E user \in {user_parsed_framework(args.version_or_tag)}, loaded \in {Loaded(t)} :
          \E chosen \in {chosen_framework(args.version_or_tag, user, loaded,
                                          args.return_default_if_does_not_exist,
                                          args.validate_exists_on_ai_hub)} :
             threads' = [threads EXCEPT ![t].pc = "done",
                                        ![t].framework = chosen,
                                        ![t].outcome = IF chosen = Nothing THEN "ValueError"
                                                       ELSE "returned"]
    /\ UNCHANGED <<env, args, outcome, test_precisions, ret, client_vars,
                   FRAMEWORKS, HUB_DEFAULT_FRAMEWORK, self, message, fetches>>

ThreadStep(t) ==
    \/ LoadConfig(t)
    \/ LoadCached(t)
    \/ LoadFetch(t)
    \/ LoadStore(t)
    \/ LoadLoop(t)
    \/ LoadDefault(t)
    \/ LoadExcept(t)
    \/ LoadFrameworks(t)
    \/ LoadGetDefault(t)
    \/ ChooseFramework(t)

NextThreads == \E t \in Threads : ThreadStep(t)

SpecThreads == InitThreads /\ [][NextThreads]_vars

(***************************************************************************)
(* ClientStateSingleton (scorecard/execution_helpers.py): constructions    *)
(* and on_staging() calls in one process, whose client configuration may   *)
(* change in between.                                                      *)
(***************************************************************************)
MaxInstances == 3         \* ClientStateSingleton objects constructed

ClientConfigs == [configured : BOOLEAN, online : BOOLEAN, api_url : ApiUrls]

\* _on_staging(): Some("staging" in client._config.api_url), or Nothing when
\* the client cannot be created or get_devices() fails. The URLs of the
\* model are named after the deployment they point to.
on_staging_ ==
    IF env.configured /\ env.online THEN Some(env.api_url = "staging") ELSE Nothing

\* ClientState(on_staging=...)
ClientState(on_staging) == [on_staging |-> on_staging]

\* self._instance read on an object: its own attribute if it has one, else
\* the class attribute.
instance_of(object) ==
    IF object._instance # Nothing THEN object._instance ELSE ClientStateSingleton_instance

InitClient ==
    /\ env \in ClientConfigs
    /\ args = [fn |-> "ClientStateSingleton", object |-> 0]
    /\ InitResults
    /\ NoQAIRT

\* ClientStateSingleton(): a new object has no attribute of its own, so
\* self._instance reads the class attribute; when that is None, _on_staging()
\* is evaluated (it may raise) and the result is assigned to self._instance,
\* an attribute of the object.
ClientStateSingleton_init ==
    /\ Len(instances) < MaxInstances
    /\ args' = [fn |-> "ClientStateSingleton", object |-> 0]
    /\ IF ClientStateSingleton_instance = Nothing
       THEN IF on_staging_ = Nothing
            THEN outcome' = "Exception" /\ UNCHANGED <<instances, on_staging_calls>>
            ELSE /\ instances' = Append(instances,
                                        [_instance |-> Some(ClientState(on_staging_[1]))])
                 /\ on_staging_calls' = on_staging_calls + 1
                 /\ outcome' = "returned"
       ELSE /\ instances' = Append(instances, [_instance |-> Nothing])
            /\ outcome' = "returned"
            /\ UNCHANGED on_staging_calls
    /\ ret' = <<>>
    /\ UNCHANGED <<env, test_precisions, qairt_vars, ClientStateSingleton_instance>>

\* object.on_staging() on one of the objects constructed.
on_staging_call ==
    /\ \E object \in 1..Len(instances) :
          /\ args' = [fn |-> "on_staging", object |-> object]
          /\ IF instance_of(instances[object]) = Nothing
             THEN outcome' = "AssertionError" /\ ret' = <<>>
             ELSE outcome' = "returned" /\ ret' = <<instance_of(instances[object])[1].on_staging>>
    /\ UNCHANGED <<env, test_precisions, qairt_vars, client_vars>>

\* The client configuration or the network changes between two calls.
ClientConfigChange ==
    /\ env' \in ClientConfigs \ {env}
    /\ UNCHANGED <<args, outcome, test_precisions, ret, qairt_vars, client_vars>>

NextClient == ClientStateSingleton_init \/ on_staging_call \/ ClientConfigChange

SpecClient == InitClient /\ [][NextClient]_vars

\* Version strings that version_eq is called on, after ParsedFramework.parse.
VersionStrings ==
    { <<"2", ".", "3", "7">>, <<"2", ".", "3", "7", ".", "0">>, <<"2", ".", "3", "7", ".", "1">>, <<"2", ".", "3", "7", ".", "2">>, <<"2", ".", "3", "8">>, <<"3", ".", "1">>, <<"3", ".", "1", ".", "0">>,
      <<"2", ".", "3", "7", ".", "0", ".", "2", "5">>, <<"2", ".", "3", "7", ".", "0", ".", "2", "5", "0">>, <<"2", ".", "3", "7", ".", "0", ".", "2", "6">>, <<"2", ".", "3", "7", "-", "a", "u", "t", "o">>, <<"2", ".", "3", "7", "-", "l", "i", "t", "e">>,
      <<"v", "2", ".", "3", "7", ".", "0", ".", "2", "5", "-", "a", "u", "t", "o">> }

InitVersionEq ==
    /\ env = [configured |-> FALSE]
    /\ args \in [fn : {"version_eq"}, a : VersionStrings, b : VersionStrings]
    /\ InitResults
    /\ NoQAIRT

\* ParsedFramework.parse(a).version_eq(ParsedFramework.parse(b))
version_eq_call ==
    /\ outcome = "pending"
    /\ args.fn = "version_eq"
    /\ ret' = version_eq(parse_opt(args.a, <<>>)[1], parse_opt(args.b, <<>>)[1])
    /\ outcome' = "returned"
    /\ UNCHANGED <<env, args, test_precisions, qairt_vars, client_vars>>

NextVersionEq == version_eq_call

SpecVersionEq == InitVersionEq /\ [][NextVersionEq]_vars

(***************************************************************************)
(* Calls of Precision.parse, on strings and on str(p) of a Precision p     *)
(***************************************************************************)
CanonicalPrecisions ==
    {float, w8a8, w8a16, w16a16, w4a16, w4,
     w8a8_mixed_int16, w8a16_mixed_int16, w8a8_mixed_fp16, w8a16_mixed_fp16}

\* The digits of the bit widths that QuantizeDtype has a member for.
SupportedWidths == {<<"4">>, <<"8">>, <<"1", "6">>}

\* Nothing, or _mixed_ and an allowed override marker.
AllowedSuffixes == {<<>>, MixedMarker \o <<"i", "n", "t", "1", "6">>, MixedMarker \o <<"f", "p", "1", "6">>}

\* Both tokens, in either order, with every supported pair of widths.
TwoTokenStrings ==
    UNION {{<<"a">> \o n \o <<"w">> \o m \o s, <<"w">> \o m \o <<"a">> \o n \o s} :
              n \in SupportedWidths, m \in SupportedWidths, s \in AllowedSuffixes}

\* Strings with no token, an unsupported width or a bad override marker, and
\* well-formed strings beside them.
OtherStrings ==
    { <<>>, <<"w">>, <<"8">>, <<"x", "y", "z">>, <<"F", "l", "o", "a", "t">>, <<"f", "l", "o", "a", "t", "y">>, <<"x", "w", "8">>, <<"_", "m", "i", "x", "e", "d", "_", "i", "n", "t", "1", "6">>,
      <<"w", "3">>, <<"a", "5", "w", "8">>, <<"w", "8", "a", "3">>, <<"w", "0", "8">>, <<"w", "3", "2", "a", "8", "_", "m", "i", "x", "e", "d", "_", "f", "p", "1", "6">>,
      <<"w", "8", "a", "8", "_", "m", "i", "x", "e", "d", "_", "i", "n", "t", "8">>, <<"w", "8", "a", "8", "_", "m", "i", "x", "e", "d", "_">>, <<"w", "8", "_", "m", "i", "x", "e", "d", "_", "f", "p", "3", "2">>, <<"w", "8", "a", "8", "_", "m", "i", "x", "e", "d", "_", "i", "n", "t", "1", "6", "_", "m", "i", "x", "e", "d", "_", "x">>,
      <<"f", "l", "o", "a", "t">>, <<"w", "8">>, <<"a", "1", "6">>, <<"w", "8", "a", "8", "x", "y", "z">>, <<"w", "8", "w", "3">>, <<"w", "8", "a", "8", "_", "m", "i", "x", "e", "d", "_", "I", "N", "T", "1", "6">>, <<"w", "4", "_", "m", "i", "x", "e", "d", "_", "f", "p", "1", "6">> }

ParseObjects ==
    {Str(s) : s \in TwoTokenStrings \cup OtherStrings}
       \cup {PrecisionObj(p) : p \in CanonicalPrecisions \cup {Precision(None, None, "INT16")}}
       \cup {OtherObj(8)}

\* No str(p) was taken: the argument is as the caller gave it.
NoOrigin == [none |-> TRUE]

InitParse ==
    /\ env = [configured |-> FALSE]
    /\ args \in [fn : {"Precision.parse"}, obj : ParseObjects, origin : {NoOrigin}]
    /\ InitResults
    /\ NoQAIRT

\* str(p) of a Precision p, the string to be parsed next.
Precision_str_call ==
    /\ outcome = "pending"
    /\ args.fn = "Precision.parse"
    /\ IsPrecisionObj(args.obj)
    /\ args' = [args EXCEPT !.obj = Str(Precision_str(args.obj.precision)),
                            !.origin = args.obj]
    /\ UNCHANGED <<env, outcome, test_precisions, ret, qairt_vars, client_vars>>

\* Precision.parse(obj): returns a Precision or raises ValueError.
Precision_parse_call ==
    /\ outcome = "pending"
    /\ args.fn = "Precision.parse"
    /\ IF parse_obj(args.obj) = ParseError
       THEN outcome' = "ValueError" /\ UNCHANGED ret
       ELSE outcome' = "returned" /\ ret' = parse_obj(args.obj)
    /\ UNCHANGED <<env, args, test_precisions, qairt_vars, client_vars>>

NextParse == Precision_str_call \/ Precision_parse_call

SpecParse == InitParse /\ [][NextParse]_vars

(***************************************************************************)
(* Comparisons of two Precision objects: ==, str() and hash() of both      *)
(***************************************************************************)
\* What Precision(weights_type, activations_type, override_type) constructs
\* without raising, for arguments of the annotated types.
ConstructiblePrecisions ==
    {Precision_init(w, a, o) : w \in QuantizeDtype \cup {None}, a \in QuantizeDtype \cup {None},
                               o \in QuantizeDtype \cup FloatDtype \cup {None}} \ {ParseError}

\* PYTHONHASHSEED of the process.
HashSeeds == {0, 7}

InitCompare ==
    /\ env \in [hashseed : HashSeeds]
    /\ args \in [fn : {"Precision.__eq__"},
                 self : ConstructiblePrecisions,
                 value : {PrecisionObj(q) : q \in ConstructiblePrecisions}
                            \cup {OtherObj(8), Str(<<"w", "8", "a", "8">>)}]
    /\ InitResults
    /\ NoQAIRT

\* self == value
Precision_eq_call ==
    /\ args.fn = "Precision.__eq__"
    /\ "eq" \notin DOMAIN ret
    /\ ret' = ret @@ ("eq" :> Precision_eq(args.self, args.value))
    /\ outcome' = "returned"
    /\ UNCHANGED <<env, args, test_precisions, qairt_vars, client_vars>>

\* str(self) and str(value) of two Precision objects
Precision_str_both ==
    /\ args.fn = "Precision.__eq__"
    /\ IsPrecisionObj(args.value)
    /\ "str" \notin DOMAIN ret
    /\ ret' = ret @@ ("str" :> <<Precision_str(args.self), Precision_str(args.value.precision)>>)
    /\ UNCHANGED <<env, args, outcome, test_precisions, qairt_vars, client_vars>>

\* hash(self) and hash(value) of two Precision objects
Precision_hash_both ==
    /\ args.fn = "Precision.__eq__"
    /\ IsPrecisionObj(args.value)
    /\ "hash" \notin DOMAIN ret
    /\ ret' = ret @@ ("hash" :> <<Precision_hash(args.self, env.hashseed),
                                   Precision_hash(args.value.precision, env.hashseed)>>)
    /\ UNCHANGED <<env, args, outcome, test_precisions, qairt_vars, client_vars>>

NextCompare == Precision_eq_call \/ Precision_str_both \/ Precision_hash_both

SpecCompare == InitCompare /\ [][NextCompare]_vars

(***************************************************************************)
(* Calls of TargetRuntime.supports_precision with one precision, on a      *)
(* runtime and on a second runtime.                                        *)
(***************************************************************************)
InitRuntime ==
    /\ env = [configured |-> FALSE]
    /\ args \in [fn : {"TargetRuntime.supports_precision"},
                 self : AllRuntimes,
                 other : AllRuntimes,
                 precision : ConstructiblePrecisions]
    /\ InitResults
    /\ NoQAIRT

\* self.supports_precision(precision): returns a bool, or assert_never raises.
supports_precision_call ==
    /\ args.fn = "TargetRuntime.supports_precision"
    /\ "self" \notin DOMAIN ret
    /\ outcome # "AssertionError"
    /\ \E result \in {supports_precision(args.self, args.precision)} :
          IF result # Nothing
          THEN ret' = ret @@ ("self" :> result[1]) /\ outcome' = "returned"
          ELSE outcome' = "AssertionError" /\ UNCHANGED ret
    /\ UNCHANGED <<env, args, test_precisions, qairt_vars, client_vars>>

\* other.supports_precision(precision), for the second runtime.
supports_precision_other ==
    /\ args.fn = "TargetRuntime.supports_precision"
    /\ "other" \notin DOMAIN ret
    /\ outcome # "AssertionError"
    /\ \E result \in {supports_precision(args.other, args.precision)} :
          IF result # Nothing
          THEN ret' = ret @@ ("other" :> result[1]) /\ UNCHANGED outcome
          ELSE outcome' = "AssertionError" /\ UNCHANGED ret
    /\ UNCHANGED <<env, args, test_precisions, qairt_vars, client_vars>>

NextRuntime == supports_precision_call \/ supports_precision_other

SpecRuntime == InitRuntime /\ [][NextRuntime]_vars

(***************************************************************************)
(* Properties of get_model_test_parameterizations (checked under Spec)     *)
(***************************************************************************)
Returned == outcome = "returned"

Triples == Range(ret)

Includes == args.include_unsupported_paths = "True"

\* The execution mode a call asks for, as a predicate on runtimes.
PassesExecutionMode(runtime) ==
    IF args.only_include_genai_paths THEN is_exclusively_for_genai(runtime)
    ELSE IF args.requires_aot_prepare THEN is_aot_compiled(runtime)
    ELSE ~is_aot_compiled(runtime)

Declares(precision, runtime) ==
    /\ precision \in DOMAIN args.supported_paths
    /\ runtime \in Range(args.supported_paths[precision])

TimesOut(precision, runtime) ==
    /\ precision \in DOMAIN args.timeout_paths
    /\ runtime \in Range(args.timeout_paths[precision])

Exposes(device, path) == path \in compile_paths(device) \cup profile_paths(device)

\* The reference set of C1: every compatible (precision, path, device).
ReferenceTriples ==
    {t \in Range(test_precisions)
           \X Range(PathCatalog(args.path_type))
           \X {d \in Devices : ~is_mirror(d) /\ device_enabled(d)} :
        /\ t[2] \in Range(all_paths(args.path_type, t[1], args.only_include_genai_paths))
        /\ PassesExecutionMode(t[2].runtime)
        /\ Declares(t[1], t[2].runtime)
        /\ ~TimesOut(t[1], t[2].runtime)
        /\ npu_supports_precision(t[3], t[1])
        /\ Exposes(t[3], t[2])}

\* C1: with devices=None and include_unsupported_paths false, the returned
\* triples are exactly the reference set: every precision under test with
\* every enabled path of the path type that supports it, passes the execution
\* mode, is declared by the model and does not time out, on every enabled
\* non-mirror device whose NPU supports the precision and which exposes the
\* path. Nothing is missing and nothing is extra.
TheoremC1 ==
    (Returned /\ args.devices = NoDevices /\ ~Includes) => Triples = ReferenceTriples

\* One declared precision, one runtime left, one matching device: one triple.
WitnessC1 ==
    /\ Returned /\ args.devices = NoDevices /\ ~Includes
    /\ env.precisions = {Special("DEFAULT")}
    /\ DOMAIN args.supported_paths = {w8a8}
    /\ Len(ret) = 1

\* C2: no returned triple has its runtime in timeout_paths of its precision,
\* whatever include_unsupported_paths is or resolves to.
TheoremC2 ==
    Returned => \A t \in Triples : ~TimesOut(t[1], t[2].runtime)

\* A call that includes unsupported paths, returns triples for a precision
\* and leaves out a timed-out runtime that an enabled device exposes.
WitnessC2 ==
    /\ Returned /\ Includes
    /\ \E t \in Triples :
         \E path \in Range(all_paths(args.path_type, t[1], args.only_include_genai_paths)) :
            /\ TimesOut(t[1], path.runtime)
            /\ PassesExecutionMode(path.runtime)
            /\ Exposes(t[3], path)

\* The call with every declared runtime list emptied (same declared precisions).
WithoutDeclaredRuntimes ==
    [args EXCEPT !.supported_paths = [p \in DOMAIN args.supported_paths |-> <<>>]]

\* C3: when include_unsupported_paths resolves to false, every returned triple
\* has a precision the model declares and a runtime in the list declared for
\* it, also for precisions that came from overrides; when it is true the
\* declared runtime lists have no influence on the result.
TheoremC3 ==
    Returned =>
       /\ ~Includes => \A t \in Triples : Declares(t[1], t[2].runtime)
       /\ Includes => ret = Parameterizations(test_precisions, WithoutDeclaredRuntimes, TRUE)

\* A precision under test that the model does not declare, next to one that
\* yields triples, with the declared lists in force.
WitnessC3 ==
    /\ Returned /\ ~Includes
    /\ Range(test_precisions) \ DOMAIN args.supported_paths # {}
    /\ ret # <<>>

NoDuplicates(s) == \A i, j \in 1..Len(s) : s[i] = s[j] => i = j

\* C4 as stated: the returned list never holds the same triple twice, for
\* every value of the devices argument.
OriginalC4 == Returned => NoDuplicates(ret)

\* C4 amended: the returned list never holds the same triple twice when
\* devices is None or an explicit list that names no device twice.
TheoremC4 ==
    (Returned /\ (args.devices = NoDevices \/ NoDuplicates(args.devices)))
       => NoDuplicates(ret)

\* An explicit list of two different devices, both of which are returned.
WitnessC4 ==
    /\ Returned
    /\ args.devices # NoDevices /\ Len(args.devices) = 2 /\ NoDuplicates(args.devices)
    /\ \A d \in Range(args.devices) : \E t \in Triples : t[3] = d

\* C5: a disabled device is in no returned triple, with devices None or
\* explicit; a mirror device is in no returned triple when devices is None.
TheoremC5 ==
    Returned => \A t \in Triples :
                   /\ device_enabled(t[3])
                   /\ args.devices = NoDevices => ~is_mirror(t[3])

\* An explicit list that names a disabled device and an enabled mirror, of
\* which only the mirror is returned.
WitnessC5 ==
    /\ Returned /\ args.devices # NoDevices
    /\ \E d \in Range(args.devices) : ~device_enabled(d)
    /\ \E t \in Triples : is_mirror(t[3])

\* C6: with only_include_genai_paths every returned runtime is exclusively
\* for GenAI (also when requires_aot_prepare is set); otherwise with
\* requires_aot_prepare every returned runtime is AOT compiled; otherwise no
\* returned runtime is AOT compiled.
TheoremC6 ==
    Returned => \A t \in Triples : PassesExecutionMode(t[2].runtime)

\* Both flags set, and a GenAI runtime returned.
WitnessC6 ==
    /\ Returned
    /\ args.only_include_genai_paths /\ args.requires_aot_prepare
    /\ ret # <<>>

IndexIn(s, x) == CHOOSE i \in 1..Len(s) : s[i] = x

RECURSIVE IsSubsequence(_, _)
IsSubsequence(a, b) ==
    IF a = <<>> THEN TRUE
    ELSE IF b = <<>> THEN FALSE
    ELSE IF Head(a) = Head(b) THEN IsSubsequence(Tail(a), Tail(b))
    ELSE IsSubsequence(a, Tail(b))

\* The devices returned for one precision and path, in order of appearance.
DevicesOf(precision, path) ==
    LET Here(t) == t[1] = precision /\ t[2] = path
        here == SelectSeq(ret, Here)
    IN  [i \in 1..Len(here) |-> here[i][3]]

\* C7: the result is ordered by precision first, in the order of the list
\* get_model_test_precisions returned, with the triples of a precision
\* contiguous; within a precision by path in catalog order, with the triples
\* of a path contiguous; within a path by device in candidate order.
TheoremC7 ==
    Returned =>
       /\ \A i, j \in 1..Len(ret) :
             i < j =>
                /\ IndexIn(test_precisions, ret[i][1]) <= IndexIn(test_precisions, ret[j][1])
                /\ ret[i][1] = ret[j][1] =>
                      IndexIn(PathCatalog(args.path_type), ret[i][2])
                         <= IndexIn(PathCatalog(args.path_type), ret[j][2])
       /\ \A t \in Triples :
             IsSubsequence(DevicesOf(t[1], t[2]), CandidateDevices(args.devices))

\* Two precisions, two paths of one precision and two devices of one path.
WitnessC7 ==
    /\ Returned
    /\ \E t, u \in Triples : t[1] # u[1]
    /\ \E t, u \in Triples : t[1] = u[1] /\ t[2] # u[2]
    /\ \E t, u \in Triples : t[1] = u[1] /\ t[2] = u[2] /\ t[3] # u[3]

(***************************************************************************)
(* Properties of get_model_test_precisions (checked under SpecPrecisions)  *)
(***************************************************************************)
SpecialSettings == {e.special : e \in {x \in env.precisions : IsSpecial(x)}}

\* The precisions that the literal entries of the override list name.
LiteralPrecisions == {parse(strip(e.str)) : e \in {x \in env.precisions : IsStr(x)}}

Result == Range(test_precisions)

\* C8: with can_use_quantize_job every literal precision of the override list
\* is in the result, declared by the model or not; without it the declared
\* literal precisions are in the result, and with no special setting the
\* result is exactly the literal precisions that the model declares.
TheoremC8 ==
    Returned =>
       /\ args.can_use_quantize_job => LiteralPrecisions \subseteq Result
       /\ ~args.can_use_quantize_job =>
             /\ LiteralPrecisions \cap args.model_supported_precisions \subseteq Result
             /\ SpecialSettings = {} =>
                   Result = LiteralPrecisions \cap args.model_supported_precisions

\* Overrides w8a8 and w8a16 on a model declaring only w8a8, no quantize job.
WitnessC8 ==
    /\ Returned /\ ~args.can_use_quantize_job
    /\ env.precisions = {Str(<<"w", "8", "a", "8">>), Str(<<" ", "w", "8", "a", "1", "6">>)}
    /\ args.model_supported_precisions = {w8a8}
    /\ test_precisions = <<w8a8>>

\* C9: an override list with two different special settings makes the call
\* raise; it never returns a result.
TheoremC9 ==
    Cardinality(SpecialSettings) > 1 =>
       /\ outcome \in {"pending", "ValueError"}
       /\ test_precisions = <<>>

\* DEFAULT and BENCH together, and the call has raised.
WitnessC9 ==
    /\ env.precisions = {Special("DEFAULT"), Special("BENCH")}
    /\ outcome = "ValueError"

\* C10 as stated: DEFAULT with no literal entries gives exactly the declared
\* precisions; DEFAULT_MINUS_FLOAT with no literal entry naming float gives
\* exactly the declared precisions minus float.
OriginalC10 ==
    Returned =>
       /\ (SpecialSettings = {"DEFAULT"} /\ LiteralPrecisions = {})
             => Result = args.model_supported_precisions
       /\ (SpecialSettings = {"DEFAULT_MINUS_FLOAT"} /\ float \notin LiteralPrecisions)
             => Result = args.model_supported_precisions \ {float}

\* The literal precisions that get_model_test_precisions admits.
AdmittedLiterals ==
    IF args.can_use_quantize_job THEN LiteralPrecisions
    ELSE LiteralPrecisions \cap args.model_supported_precisions

\* C10 amended: DEFAULT with no literal entries gives exactly the declared
\* precisions. DEFAULT_MINUS_FLOAT with no literal entries gives exactly the
\* declared precisions minus float; with literal entries none of which names
\* float it gives the declared precisions minus float together with the
\* admitted literal precisions, and float is absent from the result.
TheoremC10 ==
    Returned =>
       /\ (SpecialSettings = {"DEFAULT"} /\ LiteralPrecisions = {})
             => Result = args.model_supported_precisions
       /\ (SpecialSettings = {"DEFAULT_MINUS_FLOAT"} /\ LiteralPrecisions = {})
             => Result = args.model_supported_precisions \ {float}
       /\ (SpecialSettings = {"DEFAULT_MINUS_FLOAT"} /\ float \notin LiteralPrecisions)
             => /\ Result = (args.model_supported_precisions \ {float}) \cup AdmittedLiterals
                /\ float \notin Result

\* DEFAULT_MINUS_FLOAT on a model that declares float and another precision.
WitnessC10 ==
    /\ Returned
    /\ env.precisions = {Special("DEFAULT_MINUS_FLOAT")}
    /\ float \in args.model_supported_precisions
    /\ Result = args.model_supported_precisions \ {float}
    /\ Result # {}

\* C11: with DEFAULT_QUANTIZED the keyword contributes exactly one precision,
\* w8a16 when the model declares w8a16 (also beside w8a8) and w8a8 otherwise;
\* whatever else is in the result is an admitted literal precision, so no
\* other declared precision (float included) comes in through the keyword.
TheoremC11 ==
    (Returned /\ SpecialSettings = {"DEFAULT_QUANTIZED"}) =>
       /\ w8a16 \in args.model_supported_precisions =>
             Result = {w8a16} \cup AdmittedLiterals
       /\ w8a16 \notin args.model_supported_precisions =>
             Result = {w8a8} \cup AdmittedLiterals

\* DEFAULT_QUANTIZED alone on a model declaring float, w8a8 and w8a16.
WitnessC11 ==
    /\ Returned
    /\ env.precisions = {Special("DEFAULT_QUANTIZED")}
    /\ {float, w8a8, w8a16} \subseteq args.model_supported_precisions
    /\ test_precisions = <<w8a16>>

\* C12: with BENCH and no literal entries the call returns, and the result
\* holds float iff the model declares it, w8a8 iff the model declares it and
\* model_id is in the w8a8 allow-list, w8a16 iff the model declares it and
\* model_id is in the w8a16 allow-list, and nothing else.
TheoremC12 ==
    (outcome # "pending" /\ env.precisions = {Special("BENCH")}) =>
       /\ Returned
       /\ Result \subseteq {float, w8a8, w8a16}
       /\ float \in Result <=> float \in args.model_supported_precisions
       /\ w8a8 \in Result <=> /\ w8a8 \in args.model_supported_precisions
                              /\ args.model_id \in env.bench_w8a8_models
       /\ w8a16 \in Result <=> /\ w8a16 \in args.model_supported_precisions
                               /\ args.model_id \in env.bench_w8a16_models

\* BENCH on a model that declares w8a8 and w8a16, is in the w8a8 allow-list
\* and is absent from a non-empty w8a16 allow-list.
WitnessC12 ==
    /\ Returned
    /\ env.precisions = {Special("BENCH")}
    /\ {w8a8, w8a16, w4} \subseteq args.model_supported_precisions
    /\ args.model_id \in env.bench_w8a8_models
    /\ env.bench_w8a16_models = {"model_b"}
    /\ Result = {w8a8} \cup (args.model_supported_precisions \cap {float})

(***************************************************************************)
(* Properties of version_eq (checked under SpecVersionEq)                  *)
(***************************************************************************)
ParsedA == parse_opt(args.a, <<>>)[1]
ParsedB == parse_opt(args.b, <<>>)[1]

IsPrefix(p, s) == \E n \in 0..Len(s) : SubSeq(s, 1, n) = p

\* C13: version_eq(a, b) is true iff major and minor are equal, the patches
\* are equal or one is unset, one ident is a prefix of the other or one is
\* unset, and the flavors are equal or one is unset; so X.Y matches X.Y.0,
\* 2.37.1 does not match 2.37.2, and version_eq(a, b) = version_eq(b, a).
TheoremC13 ==
    Returned =>
       /\ ret <=> /\ ParsedA.major = ParsedB.major
                  /\ ParsedA.minor = ParsedB.minor
                  /\ \/ ParsedA.patch = Nothing \/ ParsedB.patch = Nothing
                     \/ ParsedA.patch[1] = ParsedB.patch[1]
                  /\ \/ ParsedA.ident = Nothing \/ ParsedB.ident = Nothing
                     \/ IsPrefix(ParsedA.ident[1], ParsedB.ident[1])
                     \/ IsPrefix(ParsedB.ident[1], ParsedA.ident[1])
                  /\ \/ ParsedA.flavor = Nothing \/ ParsedB.flavor = Nothing
                     \/ ParsedA.flavor[1] = ParsedB.flavor[1]
       /\ ret <=> version_eq(ParsedB, ParsedA)
       /\ (ParsedA.patch = Nothing /\ args.b = args.a \o <<".", "0">>) => ret
       /\ (args.a = <<"2", ".", "3", "7", ".", "1">> /\ args.b = <<"2", ".", "3", "7", ".", "2">>) => ~ret

\* Two versions that differ only in that the ident of one extends the other's,
\* the longer one first.
WitnessC13 ==
    /\ Returned
    /\ args.a = <<"2", ".", "3", "7", ".", "0", ".", "2", "5", "0">> /\ args.b = <<"2", ".", "3", "7", ".", "0", ".", "2", "5">>
    /\ ret = TRUE

(***************************************************************************)
(* Properties of the QAIRTVersion constructor (checked under SpecQAIRT)    *)
(***************************************************************************)
Called == outcome # "pending"

Request == args.version_or_tag.str

UserParsed == parse_opt(Request, <<>>)

\* The list of frameworks of the URL the constructed object holds.
Catalog == FRAMEWORKS[self.api_url]

\* The call had hub access: the URL it was made for is in the cache now.
Reachable == env.configured /\ env.api_url \in DOMAIN FRAMEWORKS

\* Neither a version nor a tag: does not parse, is no tag that QAIRTVersion
\* knows and no tag of a framework of the catalog.
NeitherVersionNorTag ==
    /\ UserParsed = Nothing
    /\ Request \notin Range(all_tags)
    /\ \A i \in 1..Len(Catalog) : Request \notin Range(Catalog[i].tags)

Placeholder(tags) == ParsedFramework(0, 0, Nothing, Nothing, Nothing, tags)

\* C14 as stated: a string that is neither a version nor a tag makes the
\* constructor raise in every catalog state, with or without validation; the
\* only object it may yield is the catalog default, when that was asked for.
OriginalC14 ==
    (Called /\ NeitherVersionNorTag) =>
       \/ outcome = "ValueError"
       \/ /\ args.return_default_if_does_not_exist
          /\ self.api_url \in DOMAIN HUB_DEFAULT_FRAMEWORK
          /\ self.framework = Some(HUB_DEFAULT_FRAMEWORK[self.api_url])

\* C14 amended: with the catalog reachable and validation on, such a string
\* makes the constructor raise, unless the default was asked for and exists,
\* which is then the result; with the catalog unreachable or validation off
\* the constructor does not raise and yields the version 0.0 without tags.
TheoremC14 ==
    (Called /\ NeitherVersionNorTag) =>
       IF Reachable /\ args.validate_exists_on_ai_hub
       THEN IF args.return_default_if_does_not_exist
               /\ self.api_url \in DOMAIN HUB_DEFAULT_FRAMEWORK
            THEN /\ Returned
                 /\ self.framework = Some(HUB_DEFAULT_FRAMEWORK[self.api_url])
            ELSE outcome = "ValueError" /\ self.framework = Nothing
       ELSE Returned /\ self.framework = Some(Placeholder(<<>>))

\* "foo" with a reachable catalog that has a default, validation on and the
\* default not asked for: the constructor has raised.
WitnessC14 ==
    /\ Called /\ NeitherVersionNorTag
    /\ Reachable /\ args.validate_exists_on_ai_hub
    /\ ~args.return_default_if_does_not_exist
    /\ self.api_url \in DOMAIN HUB_DEFAULT_FRAMEWORK
    /\ outcome = "ValueError"

\* Same version fields and tags (everything but the flavor).
SameEntry(f, entry) ==
    /\ f.major = entry.major /\ f.minor = entry.minor
    /\ f.patch = entry.patch /\ f.ident = entry.ident
    /\ f.tags = entry.tags

\* The request matches the framework: by version_eq when it parses, by tag
\* membership when it does not.
Matches(entry) ==
    IF UserParsed # Nothing THEN version_eq(entry, UserParsed[1])
    ELSE Request \in Range(entry.tags)

\* The result is the first matching catalog entry: for a version with the
\* flavor the user gave, for a tag the entry as it is.
IsFirstMatch ==
    \E i \in 1..Len(Catalog) :
       /\ Matches(Catalog[i])
       /\ \A k \in 1..(i - 1) : ~Matches(Catalog[k])
       /\ SameEntry(self.framework[1], Catalog[i])
       /\ IF UserParsed # Nothing
          THEN UserParsed[1].flavor # Nothing =>
                  self.framework[1].flavor = UserParsed[1].flavor
          ELSE self.framework[1] = Catalog[i]

NoMatch == \A i \in 1..Len(Catalog) : ~Matches(Catalog[i])

DefaultExists == self.api_url \in DOMAIN HUB_DEFAULT_FRAMEWORK

\* The result is the default entry of the catalog, which is tagged "default".
IsDefaultEntry ==
    /\ SameEntry(self.framework[1], HUB_DEFAULT_FRAMEWORK[self.api_url])
    /\ DEFAULT_AIHUB_TAG \in Range(self.framework[1].tags)
    /\ \E i \in 1..Len(Catalog) : Catalog[i] = HUB_DEFAULT_FRAMEWORK[self.api_url]

TheoremC17 ==
    /\ [](  (Called /\ ~Reachable /\ (UserParsed # Nothing \/ Request \in Range(all_tags)))
              => /\ Returned
                 /\ self.api_url = NoApiUrl
                 /\ self.framework = IF UserParsed # Nothing THEN UserParsed
                                     ELSE Some(Placeholder(<<Request>>)))
    /\ [][(outcome = "pending" /\ outcome' # "pending" /\ ~Reachable')
             => /\ \A url \in DOMAIN FRAMEWORKS \ {NoApiUrl} :
                      url \in DOMAIN FRAMEWORKS' /\ FRAMEWORKS'[url] = FRAMEWORKS[url]
                /\ \A url \in DOMAIN HUB_DEFAULT_FRAMEWORK :
                      /\ url \in DOMAIN HUB_DEFAULT_FRAMEWORK'
                      /\ HUB_DEFAULT_FRAMEWORK'[url] = HUB_DEFAULT_FRAMEWORK[url]]_vars

\* A tag requested without hub access while the frameworks of a URL are
\* cached from an earlier call.
WitnessC17 ==
    /\ Returned /\ ~Reachable
    /\ Request = LATEST_AIHUB_TAG
    /\ DOMAIN FRAMEWORKS \cap ApiUrls # {}
    /\ self.framework = Some(Placeholder(<<LATEST_AIHUB_TAG>>))

(***************************************************************************)
(* Properties of Precision.parse (checked under SpecParse)                 *)
(***************************************************************************)
\* C18: for each of the ten canonical precisions p, parsing str(p) returns a
\* Precision equal to p.
TheoremC18 ==
    (Called /\ args.origin # NoOrigin /\ args.origin.precision \in CanonicalPrecisions)
       => Returned /\ ret = args.origin.precision

\* str(w8a16_mixed_fp16) parsed back.
WitnessC18 ==
    /\ Returned
    /\ args.origin = PrecisionObj(w8a16_mixed_fp16)
    /\ args.obj = Str(<<"w", "8", "a", "1", "6", "_", "m", "i", "x", "e", "d", "_", "f", "p", "1", "6">>)
    /\ ret = w8a16_mixed_fp16

\* The QuantizeDtype member of a supported bit width.
DtypeOfWidth(n) ==
    CASE n = <<"4">> -> "INT4" [] n = <<"8">> -> "INT8" [] n = <<"1", "6">> -> "INT16"

\* The override dtype that an allowed suffix names.
DtypeOfSuffix(s) ==
    CASE s = <<>> -> None
      [] s = MixedMarker \o <<"i", "n", "t", "1", "6">> -> "INT16"
      [] s = MixedMarker \o <<"f", "p", "1", "6">> -> "FP16"

\* C19: for all supported widths N and M and every allowed suffix, parsing
\* 'aN' 'wM' suffix returns what parsing 'wM' 'aN' suffix returns, a Precision
\* with weights width M, activations width N and the override of the suffix.
TheoremC19 ==
    \A n \in SupportedWidths, m \in SupportedWidths, s \in AllowedSuffixes :
       (Called /\ args.origin = NoOrigin
           /\ args.obj = Str(<<"a">> \o n \o <<"w">> \o m \o s))
          => /\ Returned
             /\ ret = parse(<<"w">> \o m \o <<"a">> \o n \o s)
             /\ ret = Precision(DtypeOfWidth(m), DtypeOfWidth(n), DtypeOfSuffix(s))

\* a16w4_mixed_int16 parsed: weights INT4, activations INT16.
WitnessC19 ==
    /\ Returned /\ args.origin = NoOrigin
    /\ args.obj = Str(<<"a", "1", "6", "w", "4", "_", "m", "i", "x", "e", "d", "_", "i", "n", "t", "1", "6">>)
    /\ ret = Precision("INT4", "INT16", "INT16")

\* The string starts with a token wN or aN.
StartsWithToken(s) == Len(s) >= 2 /\ s[1] \in {"w", "a"} /\ s[2] \in Digits

\* The digits of the token that starts at position i.
WidthAt(s, i) == SubSeq(s, i + 1, DigitsEnd(s, i + 1) - 1)

\* A second token, of the other kind, follows the first one.
HasSecondToken(s) ==
    LET k == DigitsEnd(s, 2)
    IN  k + 1 <= Len(s) /\ s[k] \in {"w", "a"} \ {s[1]} /\ s[k + 1] \in Digits

\* One of the (at most two) tokens has a width without a supported dtype.
HasUnsupportedWidth(s) ==
    /\ StartsWithToken(s)
    /\ \/ WidthAt(s, 1) \notin SupportedWidths
       \/ HasSecondToken(s) /\ WidthAt(s, DigitsEnd(s, 2)) \notin SupportedWidths

\* There is a _mixed_ in the string, and what follows the last one is not
\* one of the two allowed markers (letters compared without regard to case).
HasBadOverride(s) ==
    \E k \in 1..Len(s) :
       /\ k + 6 <= Len(s) /\ SubSeq(s, k, k + 6) = MixedMarker
       /\ \A n \in (k + 1)..Len(s) : ~(n + 6 <= Len(s) /\ SubSeq(s, n, n + 6) = MixedMarker)
       /\ Upper(SubSeq(s, k + 7, Len(s))) \notin {<<"I", "N", "T", "1", "6">>, <<"F", "P", "1", "6">>}

\* C20: Precision.parse raises ValueError and returns no Precision for every
\* string other than "float" that starts with no wN or aN token, that has a
\* token whose width has no supported dtype, or whose _mixed_ suffix is not
\* one of the two allowed override markers; and for an argument that is
\* neither a string nor a Precision.
TheoremC20 ==
    (Called /\ args.origin = NoOrigin) =>
       /\ (IsStr(args.obj) /\ args.obj.str # <<"f", "l", "o", "a", "t">>
              /\ (\/ ~StartsWithToken(args.obj.str)
                  \/ HasUnsupportedWidth(args.obj.str)
                  \/ HasBadOverride(args.obj.str)))
             => outcome = "ValueError" /\ ret = <<>>
       /\ (~IsStr(args.obj) /\ ~IsPrecisionObj(args.obj))
             => outcome = "ValueError" /\ ret = <<>>

\* A well-formed pair of tokens with the override marker int8: raised.
WitnessC20 ==
    /\ args.obj = Str(<<"w", "8", "a", "8", "_", "m", "i", "x", "e", "d", "_", "i", "n", "t", "8">>)
    /\ outcome = "ValueError"

(***************************************************************************)
(* Properties of Precision.__eq__, __str__ and __hash__ (SpecCompare)      *)
(***************************************************************************)
Compared == DOMAIN ret = {"eq", "str", "hash"}

\* C21: for all constructible Precision values p and q, p == q iff their
\* weights, activations and override types are pairwise equal iff
\* str(p) == str(q); equal precisions have equal hashes.
TheoremC21 ==
    Compared =>
       /\ ret.eq <=> (/\ args.self.weights_type = args.value.precision.weights_type
                      /\ args.self.activations_type = args.value.precision.activations_type
                      /\ args.self.override_type = args.value.precision.override_type)
       /\ ret.eq <=> (ret.str[1] = ret.str[2])
       /\ ret.eq => ret.hash[1] = ret.hash[2]

\* Two precisions that differ in the override type only: unequal, with
\* different strings.
WitnessC21 ==
    /\ Compared
    /\ args.self = w8a8
    /\ args.value = PrecisionObj(w8a8_mixed_int16)
    /\ ~ret.eq
    /\ ret.str = <<Precision_str(w8a8), Precision_str(w8a8) \o MixedMarker \o <<"i", "n", "t", "1", "6">> >>

(***************************************************************************)
(* Properties of get_quantize_parameterized_pytest_config (SpecQuantize)   *)
(***************************************************************************)
IntegerActivations(p) == p.activations_type \in QuantizeDtype

\* C22: a test precision with an integer activations type and the FP16
\* override has float activations and quantized activations, so it is kept;
\* float has float activations and no quantized ones, so it is dropped; what
\* is returned are exactly the test precisions with quantized activations,
\* and float is never among them.
TheoremC22 ==
    (Returned /\ args.fn = "get_quantize_parameterized_pytest_config") =>
       /\ \A x \in Range(test_precisions) :
             /\ (IntegerActivations(x) /\ x.override_type = "FP16")
                   => /\ has_float_activations(x)
                      /\ has_quantized_activations(x)
                      /\ x \in Range(ret)
             /\ x = float
                   => /\ has_float_activations(x)
                      /\ ~has_quantized_activations(x)
                      /\ x \notin Range(ret)
             /\ x \in Range(ret) <=> (IntegerActivations(x) \/ x.override_type \in QuantizeDtype)
       /\ Range(ret) \subseteq Range(test_precisions)
       /\ float \notin Range(ret)

\* float, w4 and w8a8_mixed_fp16 are test precisions; only the last one is
\* returned.
WitnessC22 ==
    /\ Returned
    /\ args.fn = "get_quantize_parameterized_pytest_config"
    /\ {float, w8a8_mixed_fp16, w4} \subseteq Range(test_precisions)
    /\ ret = <<w8a8_mixed_fp16>>

(***************************************************************************)
(* Properties of TargetRuntime.supports_precision (SpecRuntime)            *)
(***************************************************************************)
\* C23: on each of the seven runtimes and for each precision (the ten
\* canonical ones among them) supports_precision returns a boolean and
\* never raises; it returns true for float.
TheoremC23 ==
    /\ outcome # "AssertionError"
    /\ "self" \in DOMAIN ret =>
          /\ ret.self \in BOOLEAN
          /\ args.precision = float => ret.self

\* float on a GenAI runtime and on TFLite: both calls return True.
WitnessC23 ==
    /\ DOMAIN ret = {"self", "other"}
    /\ outcome = "returned"
    /\ args.precision = float
    /\ args.self = "ONNXRUNTIME_GENAI" /\ ret.self
    /\ args.other = "TFLITE" /\ ret.other

BothCalled == DOMAIN ret = {"self", "other"}

\* The quantized precisions among the canonical ones, and the mixed ones.
QuantizedPrecisions == CanonicalPrecisions \ {float}

MixedPrecisions ==
    {w8a8_mixed_int16, w8a16_mixed_int16, w8a8_mixed_fp16, w8a16_mixed_fp16}

SameFamily == inference_engine(args.self) = inference_engine(args.other)

\* The non-float precisions a runtime accepts.
Accepted(runtime) ==
    {p \in ConstructiblePrecisions \ {float} : supports_precision(runtime, p) = Some(TRUE)}

\* Two runtimes of one family answer alike; the TFLite family accepts w8a8
\* as its only quantized precision; the QNN family accepts every quantized
\* precision, the four mixed ones included.
FamilyAllowLists ==
    /\ SameFamily => ret.self = ret.other
    /\ args.precision # float =>
          /\ inference_engine(args.self) = "TFLITE" => (ret.self <=> args.precision = w8a8)
          /\ inference_engine(args.self) = "QNN" =>
                /\ ret.self <=> args.precision \in QuantizedPrecisions
                /\ args.precision \in MixedPrecisions => ret.self

\* The claim as stated: besides, two runtimes of different families differ
\* on some non-float precision (three pairwise distinct allow-lists).
OriginalC24 ==
    BothCalled =>
       /\ FamilyAllowLists
       /\ ~SameFamily => Accepted(args.self) # Accepted(args.other)

\* C24: for non-float precisions two runtimes with the same inference engine
\* accept the same precisions; TFLite accepts exactly one quantized
\* precision (w8a8); the QNN and the ONNX families accept the same nine
\* quantized precisions, the four mixed ones included, so that there are two
\* distinct allow-lists.
TheoremC24 ==
    BothCalled =>
       /\ FamilyAllowLists
       /\ {inference_engine(args.self), inference_engine(args.other)} = {"QNN", "ONNX"}
             => /\ ret.self = ret.other
                /\ Accepted(args.self) = Accepted(args.other)
       /\ ("TFLITE" \in {inference_engine(args.self), inference_engine(args.other)} /\ ~SameFamily)
             => Accepted(args.self) # Accepted(args.other)

\* ONNX Runtime and a QNN context binary both accept w8a16_mixed_fp16.
WitnessC24 ==
    /\ BothCalled
    /\ args.self = "ONNX" /\ args.other = "QNN_CONTEXT_BINARY"
    /\ args.precision = w8a16_mixed_fp16
    /\ ret.self /\ ret.other

(***************************************************************************)
(* Properties of the framework caches over a sequence of constructor calls *)
(* (checked under SpecQAIRT)                                               *)
(***************************************************************************)
Populated(url) == url \in DOMAIN FRAMEWORKS

\* Every full version that the Hub serves for the URL parses.
ServedParses(url) ==
    \A i \in 1..Len(env.served[url]) :
       parse_opt(env.served[url][i].full_version, <<>>) # Nothing

\* Once the list of a URL is cached, neither the list nor the default of
\* the URL (present or absent) changes.
CachesKept ==
    \A url \in ApiUrls :
       Populated(url) =>
          /\ url \in DOMAIN FRAMEWORKS'
          /\ FRAMEWORKS'[url] = FRAMEWORKS[url]
          /\ (url \in DOMAIN HUB_DEFAULT_FRAMEWORK') <=> (url \in DOMAIN HUB_DEFAULT_FRAMEWORK)
          /\ url \in DOMAIN HUB_DEFAULT_FRAMEWORK
                => HUB_DEFAULT_FRAMEWORK'[url] = HUB_DEFAULT_FRAMEWORK[url]

ReachableEndpoint == env.configured /\ env.online /\ ServedParses(env.api_url)

\* What a single call leaves in the caches and returns, from empty caches.
SinglePopulate == load_frameworks(<<>>, <<>>)

\* _load_frameworks has returned to the thread.
Observed(t) == threads[t].pc \in {"choose", "done"}

\* C26: on a reachable endpoint every call observes the list and the
\* default entry that a single populate yields (so never the list without
\* the default that belongs to it), and when both calls are done the caches
\* are those of a single populate.
OriginalC26 ==
    ReachableEndpoint =>
       /\ \A t \in Threads :
             Observed(t) =>
                /\ threads[t].api_url = env.api_url
                /\ threads[t].frameworks = SinglePopulate.FRAMEWORKS[env.api_url]
                /\ threads[t].default = default_framework(SinglePopulate)
       /\ (\A t \in Threads : threads[t].pc = "done") =>
             /\ FRAMEWORKS = SinglePopulate.FRAMEWORKS
             /\ HUB_DEFAULT_FRAMEWORK = SinglePopulate.HUB_DEFAULT_FRAMEWORK

(***************************************************************************)
(* Properties of ClientStateSingleton (SpecClient)                         *)
(***************************************************************************)
\* C27: over any sequence of constructions _on_staging() is evaluated at
\* most once (evaluations that raised are not counted), and on_staging() of
\* every object returns the value that the first evaluation computed.
OriginalC27 ==
    /\ on_staging_calls <= 1
    /\ \A object \in 1..Len(instances) :
          instance_of(instances[object]) = instance_of(instances[1])
    /\ (args.fn = "on_staging" /\ outcome = "returned")
          => ret = <<instance_of(instances[1])[1].on_staging>>

(***************************************************************************)
(* Properties of the devices argument (checked under Spec)                 *)
(***************************************************************************)
\* C28: with an explicit devices list (anything but None) the device of
\* every returned triple is a member of that list; an explicit empty list
\* yields an empty result.
OriginalC28 ==
    (Returned /\ args.devices # NoDevices) =>
       /\ \A t \in Triples : t[3] \in Range(args.devices)
       /\ args.devices = <<>> => ret = <<>>

(***************************************************************************)
(* Properties of get_evaluation_parameterized_pytest_config                *)
(* (checked under SpecEvaluation)                                          *)
(***************************************************************************)
EnabledDevices == {d \in Devices : device_enabled(d)}

\* The list handed to get_model_test_parameterizations is [d].
EvaluatesOn(d) == args.devices = <<d>>

CarriesOneDevice == Returned => \A t \in Triples : EvaluatesOn(t[3])

\* C29: the evaluation runs on the requested device whenever that device
\* is enabled, on the only enabled device when the requested one is not
\* enabled and exactly one is, raises ValueError only when neither is the
\* case, and every returned triple carries the one device.
OriginalC29 ==
    Called =>
       /\ args.device \in EnabledDevices => EvaluatesOn(args.device)
       /\ (args.device \notin EnabledDevices /\ Cardinality(EnabledDevices) = 1)
             => \E d \in EnabledDevices : EvaluatesOn(d)
       /\ outcome = "ValueError"
             => (args.device \notin EnabledDevices /\ Cardinality(EnabledDevices) # 1)
       /\ CarriesOneDevice

(***************************************************************************)
(* get_model_test_precisions without a quantize job (SpecPrecisions)       *)
(***************************************************************************)
Undeclared == Result \ args.model_supported_precisions

\* The claim as stated: without a quantize job every returned precision is
\* one the model declares.
OriginalC30 == (Returned /\ ~args.can_use_quantize_job) => Undeclared = {}

\* C30: without a quantize job every returned precision is one the model
\* declares, for DEFAULT, DEFAULT_MINUS_FLOAT, BENCH, no special setting and
\* every literal override list; under DEFAULT_QUANTIZED the result holds one
\* undeclared precision, w8a8, exactly when the model declares neither w8a16
\* nor w8a8.
TheoremC30 ==
    (Returned /\ ~args.can_use_quantize_job) =>
       Undeclared = IF /\ SpecialSettings = {"DEFAULT_QUANTIZED"}
                       /\ w8a16 \notin args.model_supported_precisions
                       /\ w8a8 \notin args.model_supported_precisions
                    THEN {w8a8} ELSE {}

\* DEFAULT_QUANTIZED and the literal w8a16 on a model declaring only float,
\* no quantize job: the literal is left out and w8a8 is returned.
WitnessC30 ==
    /\ Returned /\ ~args.can_use_quantize_job
    /\ env.precisions = {Special("DEFAULT_QUANTIZED"), Str(<<" ", "w", "8", "a", "1", "6">>)}
    /\ args.model_supported_precisions = {float}
    /\ test_precisions = <<w8a8>>

====
